---- MODULE Spec2Model ----
(***************************************************************************)
(* probe-lbcdn-go: the sampling-and-evaluation engine.                     *)
(*                                                                         *)
(* Four collector goroutines (CPU, memory, disk, network) read kernel      *)
(* sources, scale the configured maxima by the warmup factor, evaluate     *)
(* OK/KO and publish into metricCache under cacheMutex; the health handler *)
(* and the terminal display copy metricCache under the read lock.          *)
(*                                                                         *)
(* float64 values are modelled as exact rationals (plus NaN and +Inf);     *)
(* rounding is not modelled.  uint64 arithmetic is modular, with the word  *)
(* width scaled down to WordBits bits.  Strings are sequences of           *)
(* one-character strings so that slicing and concatenation are computed.   *)
(* Time is counted in whole seconds since config.startTime.                *)
(***************************************************************************)
EXTENDS Integers, Sequences, FiniteSets, TLC

\* ---------------------------------------------------------------- bounds
\* Last second of the run that is explored.
MaxTime == 5
\* Width of the unsigned words standing for Go's uint64 (Mod = 2^WordBits).
WordBits == 4

\* Seconds of the clock explored one lock step at a time.
MaxTimeLocks == 2

\* Snapshots a run takes at most.
MaxReads == 1

\* Last second in which a function is called on its own.
MaxCallTime == 2

\* ------------------------------------------------------- float64 values
Abs(x) == IF x < 0 THEN -x ELSE x

RECURSIVE Gcd(_, _)
Gcd(a, b) == IF b = 0 THEN a ELSE Gcd(b, a % b)

\* The rational n/d (d > 0) in lowest terms.
Num(n, d) ==
    LET g == Gcd(Abs(n), d)
    IN  [k |-> "num", n |-> n \div g, d |-> d \div g]

F(n) == Num(n, 1)

NaN == [k |-> "nan", n |-> 0, d |-> 1]

Inf == [k |-> "inf", n |-> 1, d |-> 1]

\* float64(a) / float64(b) for unsigned integers a, b (IEEE: 0/0 is NaN).
FDiv(a, b) ==
    IF b = 0 THEN (IF a = 0 THEN NaN ELSE Inf) ELSE Num(a, b)

\* x * y (IEEE: NaN propagates, Inf * 0 is NaN).
FMul(x, y) ==
    IF x.k = "nan" \/ y.k = "nan" THEN NaN
    ELSE IF x.k = "inf" \/ y.k = "inf"
         THEN (IF (x.k = "num" /\ x.n = 0) \/ (y.k = "num" /\ y.n = 0)
               THEN NaN ELSE Inf)
         ELSE Num(x.n * y.n, x.d * y.d)

\* x > y (IEEE: every comparison with NaN is false).
FGt(x, y) ==
    IF x.k = "nan" \/ y.k = "nan" THEN FALSE
    ELSE IF x.k = "inf" THEN y.k = "num"
    ELSE IF y.k = "inf" THEN FALSE
    ELSE x.n * y.d > y.n * x.d

FGe(x, y) ==
    IF x.k = "nan" \/ y.k = "nan" THEN FALSE
    ELSE x = y \/ FGt(x, y)

Zero == F(0)

One == F(1)

\* ------------------------------------------------------------- uint64
Mod == 2 ^ WordBits

USub(a, b) == (a - b + Mod) % Mod

UAdd(a, b) == (a + b) % Mod

\* ------------------------------------------------------------- strings
Digits == <<"0", "1", "2", "3", "4", "5", "6", "7", "8", "9">>

IsDigit(c) == \E i \in 1..10 : Digits[i] = c

DigitVal(c) == (CHOOSE i \in 1..10 : Digits[i] = c) - 1

\* s[from:to] of Go (0-based, to exclusive); the caller checks the bounds.
Slice(s, from, to) == SubSeq(s, from + 1, to)

HasPrefix(s, p) == Len(s) >= Len(p) /\ SubSeq(s, 1, Len(p)) = p

\* Offset of the first character of s at or after offset i that is not a blank.
RECURSIVE SkipSpace(_, _)
SkipSpace(s, i) ==
    IF i < Len(s) /\ s[i + 1] = " " THEN SkipSpace(s, i + 1) ELSE i

\* The decimal digits of s from offset i on: [val, end]; end = i when none.
RECURSIVE ScanDigits(_, _, _)
ScanDigits(s, i, acc) ==
    IF i < Len(s) /\ IsDigit(s[i + 1])
    THEN ScanDigits(s, i + 1, acc * 10 + DigitVal(s[i + 1]))
    ELSE [val |-> acc, end |-> i]

\* fmt's %d into a *uint64 at offset i of s: blanks are skipped, then at least
\* one digit is needed and the value must fit the word; [ok, val, end].
ScanUint(s, i) ==
    LET j == SkipSpace(s, i)
        r == ScanDigits(s, j, 0)
    IN  [ok |-> r.end > j /\ r.val < Mod, val |-> r.val, end |-> r.end]

\* The text of a number, for building the sources' contents.
RECURSIVE Itoa(_)
Itoa(n) == IF n < 10 THEN <<Digits[n + 1]>> ELSE Itoa(n \div 10) \o <<Digits[(n % 10) + 1]>>

\* ------------------------------------------------------ /proc/meminfo
KwMemTotal == <<"M", "e", "m", "T", "o", "t", "a", "l", ":">>

KwMemAvailable == <<"M", "e", "m", "A", "v", "a", "i", "l", "a", "b", "l", "e", ":">>

KwMemFree == <<"M", "e", "m", "F", "r", "e", "e", ":">>

MemLine(kw, n) == kw \o <<" ">> \o Itoa(n) \o <<" ", "k", "B", "\n">>

\* An os.ReadFile result: the error, or the bytes read.
Unreadable == [ok |-> FALSE, data |-> <<>>]

File(data) == [ok |-> TRUE, data |-> data]

\* The first fmt.Sscanf of getMemoryUsage, with the format
\* "MemTotal: %d kB\nMemFree: %*d kB\nMemAvailable: %d kB".  Go's fmt has no
\* assignment suppression: "%*d" is read as the verb '*', which scanning an
\* integer rejects ("bad verb '%*' for integer"), so the call stores at most
\* memTotal and always returns an error.
SscanfMemInfo(lines) ==
    IF HasPrefix(lines, KwMemTotal)
    THEN LET r == ScanUint(lines, Len(KwMemTotal))
         IN  [err |-> TRUE, memTotal |-> IF r.ok THEN r.val ELSE 0]
    ELSE [err |-> TRUE, memTotal |-> 0]

\* The fallback loop of getMemoryUsage from index i on.  lines[i:i+9] is
\* sliced with no bounds check: it panics once i+9 > len(lines).
RECURSIVE MemScanLoop(_, _, _, _)
MemScanLoop(lines, i, memTotal, memAvailable) ==
    IF i >= Len(lines)
    THEN [panic |-> FALSE, memTotal |-> memTotal, memAvailable |-> memAvailable]
    ELSE IF i + 9 > Len(lines)
    THEN [panic |-> TRUE, memTotal |-> memTotal, memAvailable |-> memAvailable]
    ELSE LET t  == IF Slice(lines, i, i + 9) = KwMemTotal
                   THEN ScanUint(lines, i + 9)
                   ELSE [ok |-> FALSE, val |-> 0, end |-> i]
             mt == IF t.ok THEN t.val ELSE memTotal
         IN  IF i + 13 <= Len(lines) /\ Slice(lines, i, i + 13) = KwMemAvailable
             THEN LET a == ScanUint(lines, i + 13)
                  IN  [panic |-> FALSE, memTotal |-> mt,
                       memAvailable |-> IF a.ok THEN a.val ELSE memAvailable]
             ELSE MemScanLoop(lines, i + 1, mt, memAvailable)

\* Lines 36-43 of getMemoryUsage on what the parsing left in memTotal and
\* memAvailable.
MemPercent(p) ==
    IF p.panic THEN [panic |-> TRUE, err |-> FALSE, val |-> Zero]
    ELSE IF p.memTotal = 0
    THEN [panic |-> FALSE, err |-> TRUE, val |-> Zero]
    ELSE [panic |-> FALSE, err |-> FALSE,
          val |-> FMul(FDiv(USub(p.memTotal, p.memAvailable), p.memTotal), F(100))]

\* The parsing of getMemoryUsage after the first Sscanf returned `first`.
MemParse(lines, first) ==
    IF first.err
    THEN MemScanLoop(lines, 0, first.memTotal, 0)
    ELSE [panic |-> FALSE, memTotal |-> first.memTotal, memAvailable |-> 0]

\* getMemoryUsage: [panic, err, val].
getMemoryUsage(meminfo) ==
    IF ~meminfo.ok
    THEN [panic |-> FALSE, err |-> TRUE, val |-> Zero]
    ELSE MemPercent(MemParse(meminfo.data, SscanfMemInfo(meminfo.data)))

\* --------------------------------------------------------- /proc/stat
\* A cpuSnapshot: user, nice, system, idle, iowait, irq, softirq, steal.
CpuFields == {"user", "nice", "system", "idle", "iowait", "irq", "softirq", "steal"}

Snapshot(u, n, s, i, w, q, sq, st) ==
    [user |-> u, nice |-> n, system |-> s, idle |-> i,
     iowait |-> w, irq |-> q, softirq |-> sq, steal |-> st]

ZeroSnapshot == Snapshot(0, 0, 0, 0, 0, 0, 0, 0)

ZeroMetrics == [Usage |-> Zero, IOWait |-> Zero, IRQ |-> Zero, SoftIRQ |-> Zero]

\* What os.ReadFile and fmt.Sscanf make of /proc/stat: a read error, a parse
\* error, or the eight counters of the "cpu" line.
StatUnreadable == [ok |-> FALSE, parsed |-> FALSE, sample |-> ZeroSnapshot]

StatUnparsable == [ok |-> TRUE, parsed |-> FALSE, sample |-> ZeroSnapshot]

Stat(sample) == [ok |-> TRUE, parsed |-> TRUE, sample |-> sample]

\* A reader that never marks the baseline as taken: every call is a first call.
getCPUMetricsAlwaysCold(stat, initialized, cache) ==
    IF ~stat.ok \/ ~stat.parsed
    THEN [err |-> TRUE, metrics |-> ZeroMetrics,
          cpuInitialized |-> initialized, cpuCache |-> cache]
    ELSE [err |-> FALSE, metrics |-> ZeroMetrics,
          cpuInitialized |-> initialized, cpuCache |-> stat.sample]

\* A reader that computes against the baseline but never replaces it.
getCPUMetricsStaleBaseline(stat, initialized, cache) ==
    IF ~stat.ok \/ ~stat.parsed
    THEN [err |-> TRUE, metrics |-> ZeroMetrics,
          cpuInitialized |-> initialized, cpuCache |-> cache]
    ELSE IF ~initialized
    THEN [err |-> FALSE, metrics |-> ZeroMetrics,
          cpuInitialized |-> TRUE, cpuCache |-> stat.sample]
    ELSE LET c == stat.sample
             userDelta    == USub(c.user, cache.user)
             niceDelta    == USub(c.nice, cache.nice)
             systemDelta  == USub(c.system, cache.system)
             idleDelta    == USub(c.idle, cache.idle)
             iowaitDelta  == USub(c.iowait, cache.iowait)
             irqDelta     == USub(c.irq, cache.irq)
             softirqDelta == USub(c.softirq, cache.softirq)
             stealDelta   == USub(c.steal, cache.steal)
             totalDelta   ==
                 UAdd(UAdd(UAdd(UAdd(UAdd(UAdd(UAdd(userDelta, niceDelta),
                     systemDelta), idleDelta), iowaitDelta), irqDelta),
                     softirqDelta), stealDelta)
         IN  IF totalDelta = 0
             THEN [err |-> FALSE, metrics |-> ZeroMetrics,
                   cpuInitialized |-> TRUE, cpuCache |-> cache]
             ELSE [err |-> FALSE,
                   metrics |->
                     [Usage   |-> FMul(FDiv(UAdd(UAdd(userDelta, niceDelta), systemDelta),
                                            totalDelta), F(100)),
                      IOWait  |-> FMul(FDiv(iowaitDelta, totalDelta), F(100)),
                      IRQ     |-> FMul(FDiv(irqDelta, totalDelta), F(100)),
                      SoftIRQ |-> FMul(FDiv(softirqDelta, totalDelta), F(100))],
                   cpuInitialized |-> TRUE, cpuCache |-> cache]

\* A reader that drops its baseline when a read fails, and takes the
\* sample of a read that succeeds for its new baseline.
getCPUMetricsForgetting(stat, initialized, cache) ==
    IF ~stat.ok \/ ~stat.parsed
    THEN [err |-> TRUE, metrics |-> ZeroMetrics,
          cpuInitialized |-> FALSE, cpuCache |-> ZeroSnapshot]
    ELSE [err |-> FALSE, metrics |-> ZeroMetrics,
          cpuInitialized |-> TRUE, cpuCache |-> stat.sample]

\* getCPUMetrics on the source stat, with the package variables cpuInitialized
\* and cpuCache as they are: [err, metrics, cpuInitialized, cpuCache].
getCPUMetrics(stat, initialized, cache) ==
    IF ~stat.ok \/ ~stat.parsed
    THEN [err |-> TRUE, metrics |-> ZeroMetrics,
          cpuInitialized |-> initialized, cpuCache |-> cache]
    ELSE IF ~initialized
    THEN [err |-> FALSE, metrics |-> ZeroMetrics,
          cpuInitialized |-> TRUE, cpuCache |-> stat.sample]
    ELSE LET c == stat.sample
             userDelta    == USub(c.user, cache.user)
             niceDelta    == USub(c.nice, cache.nice)
             systemDelta  == USub(c.system, cache.system)
             idleDelta    == USub(c.idle, cache.idle)
             iowaitDelta  == USub(c.iowait, cache.iowait)
             irqDelta     == USub(c.irq, cache.irq)
             softirqDelta == USub(c.softirq, cache.softirq)
             stealDelta   == USub(c.steal, cache.steal)
             totalDelta   ==
                 UAdd(UAdd(UAdd(UAdd(UAdd(UAdd(UAdd(userDelta, niceDelta),
                     systemDelta), idleDelta), iowaitDelta), irqDelta),
                     softirqDelta), stealDelta)
         IN  IF totalDelta = 0
             THEN [err |-> FALSE, metrics |-> ZeroMetrics,
                   cpuInitialized |-> TRUE, cpuCache |-> c]
             ELSE [err |-> FALSE,
                   metrics |->
                     [Usage   |-> FMul(FDiv(UAdd(UAdd(userDelta, niceDelta), systemDelta),
                                            totalDelta), F(100)),
                      IOWait  |-> FMul(FDiv(iowaitDelta, totalDelta), F(100)),
                      IRQ     |-> FMul(FDiv(irqDelta, totalDelta), F(100)),
                      SoftIRQ |-> FMul(FDiv(softirqDelta, totalDelta), F(100))],
                   cpuInitialized |-> TRUE, cpuCache |-> c]

\* --------------------------------------------------------------- statfs
\* A syscall.Statfs result: the error, or Blocks, Bavail and Bsize.
StatfsError == [ok |-> FALSE, Blocks |-> 0, Bavail |-> 0, Bsize |-> 0]

Statfs(blocks, bavail, bsize) ==
    [ok |-> TRUE, Blocks |-> blocks, Bavail |-> bavail, Bsize |-> bsize]

\* getDiskUsage: [err, val].  A filesystem of zero blocks gives 0/0 = NaN.
getDiskUsage(stat) ==
    IF ~stat.ok THEN [err |-> TRUE, val |-> Zero]
    ELSE LET total     == (stat.Blocks * stat.Bsize) % Mod
             available == (stat.Bavail * stat.Bsize) % Mod
             used      == USub(total, available)
         IN  [err |-> FALSE, val |-> FMul(FDiv(used, total), F(100))]

\* A sanitizePath that slices from the first character instead of the second.
sanitizePathKeepingFirst(path) ==
    IF path = <<"/">> THEN [panic |-> FALSE, name |-> <<"r", "o", "o", "t">>]
    ELSE [panic |-> FALSE,
          name |-> [i \in 1..Len(path) |-> IF path[i] = "/" THEN "_" ELSE path[i]]]

\* sanitizePath: [panic, name].  path[1:] of the empty string is out of range.
sanitizePath(path) ==
    IF path = <<"/">> THEN [panic |-> FALSE, name |-> <<"r", "o", "o", "t">>]
    ELSE IF Len(path) < 1 THEN [panic |-> TRUE, name |-> <<>>]
    ELSE LET sanitized == Slice(path, 1, Len(path))
         IN  [panic |-> FALSE,
              name |-> [i \in 1..Len(sanitized) |->
                          IF sanitized[i] = "/" THEN "_" ELSE sanitized[i]]]

\* ------------------------------------------- /proc/net/tcp, /proc/net/tcp6
Established == <<" ", "0", "1", " ">>

\* The inner loop: some window line[j:j+4], j < len(line)-3, is " 01 ".
HasEstablished(line) ==
    \E j \in 0..(Len(line) - 4) : Slice(line, j, j + 4) = Established

\* The outer loop from index i on: every newline closes the line begun at
\* lineStart; a last line with no newline is never looked at.
RECURSIVE CountEstablished(_, _, _, _)
CountEstablished(lines, i, lineStart, count) ==
    IF i >= Len(lines) THEN count
    ELSE IF lines[i + 1] = "\n"
    THEN CountEstablished(lines, i + 1, i + 1,
             IF HasEstablished(Slice(lines, lineStart, i)) THEN count + 1 ELSE count)
    ELSE CountEstablished(lines, i + 1, lineStart, count)

\* A reader that fails when the IPv6 table cannot be read.
getNetworkConnectionsBothRequired(tcp, tcp6) ==
    IF ~tcp.ok \/ ~tcp6.ok THEN [err |-> TRUE, val |-> Zero]
    ELSE [err |-> FALSE,
          val |-> F(CountEstablished(tcp6.data, 0, 0,
                                     CountEstablished(tcp.data, 0, 0, 0)))]

\* getNetworkConnections: [err, val].
getNetworkConnections(tcp, tcp6) ==
    IF ~tcp.ok THEN [err |-> TRUE, val |-> Zero]
    ELSE LET count4 == CountEstablished(tcp.data, 0, 0, 0)
             count  == IF tcp6.ok
                       THEN CountEstablished(tcp6.data, 0, 0, count4)
                       ELSE count4
         IN  [err |-> FALSE, val |-> F(count)]

\* ---------------------------------------------------------- /proc/net/dev
\* A scanner that skips the '*' verbs as C's sscanf does, so that the call
\* succeeds whenever the line starts with a number.
SscanfDevSuppressing(rest) ==
    LET r == ScanUint(rest, 0)
    IN  [err |-> ~r.ok, rxBytes |-> IF r.ok THEN r.val ELSE 0, txBytes |-> 0]

\* fmt.Sscanf(rest, "%d %*d %*d %*d %*d %*d %*d %*d %d", &rxBytes, &txBytes):
\* the first %d stores rxBytes when rest starts with a number; the next verb
\* is '*' ("%*d"), which Go's fmt does not know ("bad verb '%*' for integer"),
\* so txBytes is never stored and the call returns an error in every case.
SscanfDev(rest) ==
    LET r == ScanUint(rest, 0)
    IN  [err |-> TRUE, rxBytes |-> IF r.ok THEN r.val ELSE 0, txBytes |-> 0]

\* The line loop of getNetworkBandwidth from index i on: [err, rxBytes, txBytes].
\* A search that takes an interface without a line for an error.
RECURSIVE FindInterfaceRequired(_, _, _, _)
FindInterfaceRequired(lines, iface, i, lineStart) ==
    IF i >= Len(lines) THEN [err |-> TRUE, rxBytes |-> 0, txBytes |-> 0]
    ELSE IF lines[i + 1] = "\n"
    THEN LET line == Slice(lines, lineStart, i)
         IN  IF Len(line) > Len(iface)
                /\ Slice(line, 0, Len(iface) + 1) = iface \o <<":">>
             THEN SscanfDev(Slice(line, Len(iface) + 1, Len(line)))
             ELSE FindInterfaceRequired(lines, iface, i + 1, i + 1)
    ELSE FindInterfaceRequired(lines, iface, i + 1, lineStart)

RECURSIVE FindInterface(_, _, _, _)
FindInterface(lines, iface, i, lineStart) ==
    IF i >= Len(lines) THEN [err |-> FALSE, rxBytes |-> 0, txBytes |-> 0]
    ELSE IF lines[i + 1] = "\n"
    THEN LET line == Slice(lines, lineStart, i)
         IN  IF Len(line) > Len(iface)
                /\ Slice(line, 0, Len(iface) + 1) = iface \o <<":">>
             THEN SscanfDev(Slice(line, Len(iface) + 1, Len(line)))
             ELSE FindInterface(lines, iface, i + 1, i + 1)
    ELSE FindInterface(lines, iface, i + 1, lineStart)

\* Whether bandwidthCache holds a snapshot for iface.
HasBaseline(cache, iface) == iface \in DOMAIN cache

\* cache with cache[iface] = snap.
\* A store that replaces the whole map by the one interface's entry.
StoreBaselineAlone(cache, iface, snap) == [x \in {iface} |-> snap]

StoreBaseline(cache, iface, snap) ==
    [x \in DOMAIN cache \cup {iface} |-> IF x = iface THEN snap ELSE cache[x]]

\* Lines 228-260 of getNetworkBandwidth, the line loop having found `found`.
BandwidthSince(found, iface, cache, currentTime) ==
    IF found.err
    THEN [err |-> TRUE, val |-> Zero, bandwidthCache |-> cache]
    ELSE LET currentTotalBytes == UAdd(found.rxBytes, found.txBytes)
             snap == [totalBytes |-> currentTotalBytes, timestamp |-> currentTime]
         IN  IF ~HasBaseline(cache, iface)
             THEN [err |-> FALSE, val |-> Zero,
                   bandwidthCache |-> StoreBaseline(cache, iface, snap)]
             ELSE LET bytesDelta == USub(currentTotalBytes, cache[iface].totalBytes)
                      timeDelta == currentTime - cache[iface].timestamp
                  IN  [err |-> FALSE,
                       val |-> IF timeDelta <= 0 THEN Zero
                               ELSE FDiv(bytesDelta, timeDelta),
                       bandwidthCache |-> StoreBaseline(cache, iface, snap)]

\* getNetworkBandwidth(iface) at time currentTime, with bandwidthCache as it
\* is: [err, val, bandwidthCache].
getNetworkBandwidth(dev, iface, cache, currentTime) ==
    IF ~dev.ok THEN [err |-> TRUE, val |-> Zero, bandwidthCache |-> cache]
    ELSE BandwidthSince(FindInterface(dev.data, iface, 0, 0), iface, cache, currentTime)

\* ------------------------------------------------------- formatBandwidth
\* A non-negative float64 too large for a machine integer is kept as
\* n/d * 1000^e; the values explored with e > 0 are whole numbers.
Scaled(n, d, e) == [n |-> Num(n, d).n, d |-> Num(n, d).d, e |-> e]

\* const unit = 1000.0
Unit == 1000

\* x < unit^j
SLt(x, j) ==
    IF x.n = 0 THEN TRUE
    ELSE IF x.e >= j
    THEN IF x.e - j >= 4 THEN FALSE ELSE x.n <= (x.d - 1) \div (Unit ^ (x.e - j))
    ELSE IF j - x.e >= 4 THEN TRUE ELSE (x.n \div x.d) < Unit ^ (j - x.e)

\* x / unit^j
SDiv(x, j) ==
    IF x.e >= j THEN Scaled(x.n, x.d, x.e - j)
    ELSE Scaled(x.n, x.d * (Unit ^ (j - x.e)), 0)

\* The integer nearest to n/d, a tie going to the even one, as strconv
\* rounds the exact value of a float64.
RoundHalfEven(n, d) ==
    LET q == n \div d
        r == n % d
    IN  IF 2 * r < d THEN q
        ELSE IF 2 * r > d THEN q + 1
        ELSE IF q % 2 = 0 THEN q ELSE q + 1

RECURSIVE Zeros(_)
Zeros(e) == IF e = 0 THEN <<>> ELSE <<"0", "0", "0">> \o Zeros(e - 1)

\* fmt.Sprintf("%.0f", x)
Sprintf0(x) ==
    IF x.e = 0 THEN Itoa(RoundHalfEven(x.n, x.d))
    ELSE IF x.n = 0 THEN <<"0">>
    ELSE Itoa(x.n) \o Zeros(x.e)

\* The text of t tenths with one decimal place.
Tenths(t) == Itoa(t \div 10) \o <<".">> \o Itoa(t % 10)

\* fmt.Sprintf("%.1f", x)
Sprintf1(x) ==
    Tenths((((x.n * (Unit ^ x.e)) \div x.d) * 10)
             + RoundHalfEven(((x.n * (Unit ^ x.e)) % x.d) * 10, x.d))

\* suffixes := []string{"k", "M", "G", "T", "P"}
Suffixes == <<"k", "M", "G", "T", "P">>

\* The loop without its `i == len(suffixes)-1`: a value of unit^6 or more
\* leaves the loop and is printed by the return after it.
RECURSIVE FormatLoopFallingThrough(_, _)
FormatLoopFallingThrough(x, i) ==
    IF i >= Len(Suffixes) THEN Sprintf0(x)
    ELSE IF SLt(x, i + 2)
    THEN Sprintf1(SDiv(x, i + 1)) \o <<Suffixes[i + 1]>>
    ELSE FormatLoopFallingThrough(x, i + 1)

\* The loop of formatBandwidth from index i on, div being unit^(i+1), and
\* the return after it.
RECURSIVE FormatLoop(_, _)
FormatLoop(x, i) ==
    IF i >= Len(Suffixes) THEN Sprintf0(x)
    ELSE IF SLt(x, i + 2) \/ i = Len(Suffixes) - 1
    THEN Sprintf1(SDiv(x, i + 1)) \o <<Suffixes[i + 1]>>
    ELSE FormatLoop(x, i + 1)

formatBandwidth(bytesPerSec) ==
    IF SLt(bytesPerSec, 1) THEN Sprintf0(bytesPerSec) ELSE FormatLoop(bytesPerSec, 0)

\* ------------------------------------------------------------- metric names
KeyCpuUsage == <<"c", "p", "u", "_", "u", "s", "a", "g", "e">>

KeyCpuIOWait == <<"c", "p", "u", "_", "i", "o", "w", "a", "i", "t">>

KeyCpuIRQ == <<"c", "p", "u", "_", "i", "r", "q">>

KeyCpuSoftIRQ == <<"c", "p", "u", "_", "s", "o", "f", "t", "i", "r", "q">>

KeyMemory == <<"m", "e", "m", "o", "r", "y">>

KeyConnections ==
    <<"n", "e", "t", "w", "o", "r", "k", "_",
      "c", "o", "n", "n", "e", "c", "t", "i", "o", "n", "s">>

\* A disk metric named by the sanitized path alone.
DiskKeyBare(name) == name

\* fmt.Sprintf("disk_%s", name)
DiskKey(name) == <<"d", "i", "s", "k", "_">> \o name

\* fmt.Sprintf("network_%s_bandwidth", iface)
BandwidthKey(iface) ==
    <<"n", "e", "t", "w", "o", "r", "k", "_">> \o iface
        \o <<"_", "b", "a", "n", "d", "w", "i", "d", "t", "h">>

\* ------------------------------------------------------------- evaluation
MetricStatus(current, max, status) ==
    [Current |-> current, Max |-> max, Status |-> status]

\* A ramp that counts the time remaining instead of the time elapsed.
getWarmupFactorRemaining(cfg, t) ==
    LET elapsed == t - cfg.startTime
    IN  IF elapsed >= cfg.Warmup.Duration THEN One
        ELSE Num(cfg.Warmup.Duration - elapsed, cfg.Warmup.Duration)

\* A factor that is 1 only once elapsed exceeds the duration.
getWarmupFactorPastDuration(cfg, t) ==
    LET elapsed == t - cfg.startTime
    IN  IF elapsed > cfg.Warmup.Duration THEN One
        ELSE FDiv(elapsed, cfg.Warmup.Duration)

\* A ramp that goes on rising past the warmup duration.
getWarmupFactorUncapped(cfg, t) ==
    LET elapsed == t - cfg.startTime
    IN  IF cfg.Warmup.Duration <= 0 THEN One
        ELSE Num(elapsed, cfg.Warmup.Duration)

\* getWarmupFactor at t seconds of the clock.
getWarmupFactor(cfg, t) ==
    LET elapsed == t - cfg.startTime
    IN  IF elapsed >= cfg.Warmup.Duration THEN One
        ELSE Num(elapsed, cfg.Warmup.Duration)

\* warmupFactor := 1.0; if config.Warmup.Enabled { warmupFactor = getWarmupFactor() }
WarmupFactor(cfg, t) ==
    IF cfg.Warmup.Enabled THEN getWarmupFactor(cfg, t) ELSE One

\* An effective maximum that is ramped whether or not warmup is enabled.
EffectiveMaxAlwaysRamped(cfg, max, t) ==
    LET elapsed == t - cfg.startTime
    IN  IF elapsed >= cfg.Warmup.Duration THEN max
        ELSE FMul(max, Num(elapsed, cfg.Warmup.Duration))

\* effectiveMax := max; if config.Warmup.Enabled { effectiveMax = max * getWarmupFactor() }
EffectiveMax(cfg, max, t) ==
    IF cfg.Warmup.Enabled THEN FMul(max, getWarmupFactor(cfg, t)) ELSE max

\* A comparison that counts a reading equal to the maximum as exceeding it.
StatusInclusive(current, effectiveMax) ==
    IF FGe(current, effectiveMax) THEN "KO" ELSE "OK"

\* status := "OK"; if current > effectiveMax { status = "KO" }
Status(current, effectiveMax) ==
    IF FGt(current, effectiveMax) THEN "KO" ELSE "OK"

\* One store of the loop body: the key, the MetricStatus assigned to it, and
\* whether the read behind it failed.
Write(key, entry, err) == [key |-> key, entry |-> entry, err |-> err]

\* ------------------------------------------------------ one tick, computed
\* The store of one thresholded reading: metricCache[key] = MetricStatus{...}.
Evaluated(key, current, effectiveMax, err) ==
    Write(key, MetricStatus(current, effectiveMax, Status(current, effectiveMax)), err)

\* The reading a collector goes on with: zero when the read failed.
Reading(r) == IF r.err THEN Zero ELSE r.val

\* A CPU collector that takes the lock anew for each of its four keys.
CPUPlanLockPerKey(r, metrics, thresholds, warmupFactor) ==
    [panic |-> FALSE, err |-> r.err,
     cpuInitialized |-> r.cpuInitialized, cpuCache |-> r.cpuCache,
     sections |-> <<
       << Evaluated(KeyCpuUsage, metrics.Usage,
                    FMul(thresholds.MaxCPU, warmupFactor), r.err) >>,
       << Evaluated(KeyCpuIOWait, metrics.IOWait,
                    FMul(thresholds.MaxIOWait, warmupFactor), r.err) >>,
       << Evaluated(KeyCpuIRQ, metrics.IRQ,
                    FMul(thresholds.MaxIRQ, warmupFactor), r.err) >>,
       << Evaluated(KeyCpuSoftIRQ, metrics.SoftIRQ,
                    FMul(thresholds.MaxSoftIRQ, warmupFactor), r.err) >> >>]

\* Lines 98-158 of collectCPUMetric on the result r of getCPUMetrics: the new
\* baseline and the four stores made under the one lock.
CPUPlan(r, metrics, thresholds, warmupFactor) ==
    [panic |-> FALSE, err |-> r.err,
     cpuInitialized |-> r.cpuInitialized, cpuCache |-> r.cpuCache,
     sections |-> <<
       << Evaluated(KeyCpuUsage, metrics.Usage,
                    FMul(thresholds.MaxCPU, warmupFactor), r.err),
          Evaluated(KeyCpuIOWait, metrics.IOWait,
                    FMul(thresholds.MaxIOWait, warmupFactor), r.err),
          Evaluated(KeyCpuIRQ, metrics.IRQ,
                    FMul(thresholds.MaxIRQ, warmupFactor), r.err),
          Evaluated(KeyCpuSoftIRQ, metrics.SoftIRQ,
                    FMul(thresholds.MaxSoftIRQ, warmupFactor), r.err) >> >>]

\* if err != nil { metrics = cpuMetrics{} }
CPUReading(r) == IF r.err THEN ZeroMetrics ELSE r.metrics

CPUResult(r, cfg, t) ==
    CPUPlan(r, CPUReading(r), cfg.Thresholds, WarmupFactor(cfg, t))

\* The body of collectCPUMetric's loop up to time.Sleep.
CPUTick(stat, cfg, t, initialized, cache) ==
    CPUResult(getCPUMetrics(stat, initialized, cache), cfg, t)

\* Lines 50-75 of collectMemoryMetric on the result r of getMemoryUsage: a
\* panic of getMemoryUsage ends the process before anything is stored.
MemoryPlan(r, effectiveMax) ==
    [panic |-> r.panic, err |-> r.err,
     sections |-> IF r.panic THEN <<>>
                  ELSE << << Evaluated(KeyMemory, Reading(r), effectiveMax, r.err) >> >>]

\* A memory collector that computes its effective maximum once, before the
\* loop, at the start of the process.
MemoryTickAtStart(meminfo, cfg, t) ==
    MemoryPlan(getMemoryUsage(meminfo),
               EffectiveMax(cfg, cfg.Thresholds.MaxMemory, cfg.startTime))

\* The body of collectMemoryMetric's loop up to time.Sleep.
MemoryTick(meminfo, cfg, t) ==
    MemoryPlan(getMemoryUsage(meminfo), EffectiveMax(cfg, cfg.Thresholds.MaxMemory, t))

\* Lines 215-234 of collectDiskMetric for one path, on the result r of
\* getDiskUsage and the name sanitizePath gave.
DiskWrite(r, name, effectiveMax) ==
    << Evaluated(DiskKey(name), Reading(r), effectiveMax, r.err) >>

\* A path loop that scales the maximum down again for each further path.
RECURSIVE DiskLoopRescaling(_, _, _, _, _)
DiskLoopRescaling(paths, stats, effectiveMax, i, sections) ==
    IF i > Len(paths) THEN [panic |-> FALSE, sections |-> sections]
    ELSE IF sanitizePath(paths[i]).panic THEN [panic |-> TRUE, sections |-> sections]
    ELSE DiskLoopRescaling(paths, stats, FMul(effectiveMax, Num(1, 2)), i + 1,
             Append(sections,
                    DiskWrite(getDiskUsage(stats[i]), sanitizePath(paths[i]).name,
                              effectiveMax)))

\* The path loop of collectDiskMetric from the i-th path on; effectiveMax was
\* computed before the loop.  Each path is stored under its own lock; a panic
\* of sanitizePath ends the process after the earlier paths were stored.
RECURSIVE DiskLoop(_, _, _, _, _)
DiskLoop(paths, stats, effectiveMax, i, sections) ==
    IF i > Len(paths) THEN [panic |-> FALSE, sections |-> sections]
    ELSE IF sanitizePath(paths[i]).panic THEN [panic |-> TRUE, sections |-> sections]
    ELSE DiskLoop(paths, stats, effectiveMax, i + 1,
             Append(sections,
                    DiskWrite(getDiskUsage(stats[i]), sanitizePath(paths[i]).name,
                              effectiveMax)))

\* The body of collectDiskMetric's loop up to time.Sleep.
DiskTick(stats, cfg, t) ==
    DiskLoop(cfg.Monitoring.DiskPaths, stats,
             EffectiveMax(cfg, cfg.Thresholds.MaxDisk, t), 1, <<>>)

\* A bandwidth entry whose status is evaluated against its maximum of 0 as
\* "at or above".
BandwidthWriteEvaluated(iface, r) ==
    << Write(BandwidthKey(iface),
             MetricStatus(Reading(r), Zero, StatusInclusive(Reading(r), Zero)), r.err) >>

\* Lines 156-170 of collectNetworkMetric on the result r of
\* getNetworkBandwidth: stored with Max 0 and Status "OK" whatever was measured.
BandwidthWrite(iface, r) ==
    << Write(BandwidthKey(iface), MetricStatus(Reading(r), Zero, "OK"), r.err) >>

\* The interface loop of collectNetworkMetric from the i-th interface on.
RECURSIVE BandwidthLoop(_, _, _, _, _, _)
RECURSIVE BandwidthNext(_, _, _, _, _, _)
BandwidthNext(ifaces, devs, t, i, sections, r) ==
    BandwidthLoop(ifaces, devs, t, i + 1, r.bandwidthCache,
                  Append(sections, BandwidthWrite(ifaces[i], r)))

BandwidthLoop(ifaces, devs, t, i, cache, sections) ==
    IF i > Len(ifaces) THEN [bandwidthCache |-> cache, sections |-> sections]
    ELSE BandwidthNext(ifaces, devs, t, i, sections,
                       getNetworkBandwidth(devs[i], ifaces[i], cache, t))

\* The writes of a sequence of sections, in order.
RECURSIVE Flatten(_)
Flatten(sections) ==
    IF sections = <<>> THEN <<>> ELSE Head(sections) \o Flatten(Tail(sections))

\* A tick that takes the lock once, before the connection count is stored,
\* and releases it after the last interface.
NetworkPlanOneLock(err, loop) ==
    [panic |-> FALSE, err |-> err,
     bandwidthCache |-> loop.bandwidthCache, sections |-> << Flatten(loop.sections) >>]

\* What the tick has stored and kept once the interface loop is through.
NetworkPlan(err, loop) ==
    [panic |-> FALSE, err |-> err,
     bandwidthCache |-> loop.bandwidthCache, sections |-> loop.sections]

\* Lines 126-171 of collectNetworkMetric on the result r of
\* getNetworkConnections: the connection count under one lock, then every
\* interface under its own.
NetworkResult(r, effectiveMax, devs, cfg, t, cache) ==
    NetworkPlan(r.err,
        BandwidthLoop(cfg.Monitoring.NetworkInterfaces, devs, t, 1, cache,
            << << Evaluated(KeyConnections, Reading(r), effectiveMax, r.err) >> >>))

\* The body of collectNetworkMetric's loop up to time.Sleep.
NetworkTick(tcp, tcp6, devs, cfg, t, cache) ==
    NetworkResult(getNetworkConnections(tcp, tcp6),
                  EffectiveMax(cfg, cfg.Thresholds.MaxConnections, t),
                  devs, cfg, t, cache)

\* ------------------------------------------------------------- the store
\* The zero value of MetricStatus, which a new map slot holds before the
\* composite literal's words are copied into it.
ZeroStatus == MetricStatus(Zero, Zero, "")

\* A store that starts from a fresh map, as if metricCache were reassigned.
StoreFieldReplacing(cache, key, field, value) ==
    LET old == IF key \in DOMAIN cache THEN cache[key] ELSE ZeroStatus
    IN  [k \in {key} |-> [old EXCEPT ![field] = value]]

\* One field of metricCache[key] written.
StoreField(cache, key, field, value) ==
    LET old == IF key \in DOMAIN cache THEN cache[key] ELSE ZeroStatus
    IN  [k \in DOMAIN cache \cup {key} |->
           IF k = key THEN [old EXCEPT ![field] = value] ELSE cache[k]]

\* metricCache[key] = entry: the three fields, one after the other.
Publish(cache, key, entry) ==
    StoreField(StoreField(StoreField(cache, key, "Current", entry.Current),
                          key, "Max", entry.Max),
               key, "Status", entry.Status)

\* The stores of a sequence of writes, in order.
RECURSIVE PublishAll(_, _)
PublishAll(cache, writes) ==
    IF writes = <<>> THEN cache
    ELSE PublishAll(Publish(cache, Head(writes).key, Head(writes).entry), Tail(writes))

\* The field stores of one write, in the order of the composite literal.
FieldWrites(w) ==
    << [key |-> w.key, field |-> "Current", value |-> w.entry.Current, entry |-> w.entry],
       [key |-> w.key, field |-> "Max", value |-> w.entry.Max, entry |-> w.entry],
       [key |-> w.key, field |-> "Status", value |-> w.entry.Status, entry |-> w.entry] >>

\* The field stores of the writes made under one lock.
RECURSIVE FieldSection(_)
FieldSection(writes) ==
    IF writes = <<>> THEN <<>>
    ELSE FieldWrites(Head(writes)) \o FieldSection(Tail(writes))

FieldSections(sections) ==
    [i \in 1..Len(sections) |-> FieldSection(sections[i])]

\* ------------------------------------------------------- cacheMutex
\* A sync.RWMutex: the goroutine holding it for writing and those holding it
\* for reading.
Unlocked == [writer |-> "none", readers |-> {}]

\* A lock that lets everyone in.
CanLockAlways(m) == TRUE

\* cacheMutex.Lock() returns once no one holds the lock.
CanLock(m) == m.writer = "none" /\ m.readers = {}

\* A read lock that lets everyone in.
CanRLockAlways(m) == TRUE

\* cacheMutex.RLock() returns once no writer holds the lock.
CanRLock(m) == m.writer = "none"

\* metrics[k] = v of the copy loops.
CopyEntry(metrics, k, v) ==
    [x \in DOMAIN metrics \cup {k} |-> IF x = k THEN v ELSE metrics[x]]

\* ------------------------------------------------------------ /health
\* json.Encoder.Encode refuses NaN and the infinities (UnsupportedValueError)
\* and then writes nothing.
Encodable(x) == x.k = "num"

\* healthHandler on the copy `metrics` of metricCache, at time t: the status
\* code written, and the body (empty when Encode failed).
healthHandler(metrics, t) ==
    LET overallStatus ==
            IF \E k \in DOMAIN metrics : metrics[k].Status = "KO" THEN "KO" ELSE "OK"
        code == IF overallStatus = "KO" THEN 503 ELSE 200
        encoded == \A k \in DOMAIN metrics :
                       Encodable(metrics[k].Current) /\ Encodable(metrics[k].Max)
    IN  [served |-> TRUE, snapshot |-> metrics, code |-> code,
         body |-> IF encoded
                  THEN [written |-> TRUE, status |-> overallStatus,
                        timestamp |-> t, metrics |-> metrics]
                  ELSE [written |-> FALSE, status |-> "",
                        timestamp |-> 0, metrics |-> <<>>]]

NoResponse ==
    [served |-> FALSE, snapshot |-> <<>>, code |-> 0,
     body |-> [written |-> FALSE, status |-> "", timestamp |-> 0, metrics |-> <<>>]]

\* ------------------------------------------------------- configuration
\* getDefaultConfig's thresholds.
DefaultThresholds ==
    [MaxCPU |-> F(80), MaxIOWait |-> F(20), MaxIRQ |-> F(5), MaxSoftIRQ |-> F(10),
     MaxMemory |-> F(90), MaxDisk |-> F(95), MaxConnections |-> F(1000)]

Config(enabled, duration, thresholds, paths, ifaces) ==
    [Warmup |-> [Enabled |-> enabled, Duration |-> duration],
     Thresholds |-> thresholds,
     Monitoring |-> [DiskPaths |-> paths, NetworkInterfaces |-> ifaces],
     startTime |-> 0]

\* Seconds between two ticks of the CPU, memory and network collectors.
CollectInterval == 2

\* Seconds between two ticks of the disk collector.
DiskInterval == 5

\* getDefaultConfig's warmup duration, in seconds.
DefaultWarmupSeconds == 60

\* A warmup duration short enough for the ramp to end within the run.
WarmupSeconds == 4

PathRoot == <<"/">>

PathVarLog == <<"/", "v", "a", "r", "/", "l", "o", "g">>

PathEmpty == <<>>

IfLo == <<"l", "o">>

\* A short ramp over one disk path and one interface.
RampConfig == Config(TRUE, WarmupSeconds, DefaultThresholds, <<PathRoot>>, <<IfLo>>)

\* The configurations explored: the tests' (warmup disabled), a short ramp,
\* the default ramp of a minute, a ramp of zero seconds, and one with an
\* empty disk path.
Configs ==
    { Config(FALSE, DefaultWarmupSeconds, DefaultThresholds, <<PathRoot, PathVarLog>>, <<IfLo>>),
      Config(TRUE, WarmupSeconds, DefaultThresholds, <<PathRoot, PathVarLog>>, <<IfLo>>),
      Config(TRUE, DefaultWarmupSeconds, DefaultThresholds, <<PathRoot, PathVarLog>>, <<IfLo>>),
      Config(TRUE, 0, DefaultThresholds, <<PathRoot>>, <<IfLo>>),
      Config(TRUE, WarmupSeconds, DefaultThresholds, <<PathEmpty>>, <<IfLo>>),
      RampConfig }

\* ---------------------------------------------------- the kernel's sources
S1 == Snapshot(1, 0, 1, 2, 0, 0, 0, 0)

S2 == Snapshot(5, 0, 1, 4, 1, 0, 1, 0)

MemInfo(total, free, available) ==
    MemLine(KwMemTotal, total) \o MemLine(KwMemFree, free)
        \o MemLine(KwMemAvailable, available)

TcpHeader == <<"s", "l", " ", "s", "t", "\n">>

TcpLine(st) == <<"0", ":", " ", "A", " ", "B", " ">> \o st \o <<" ", "0", "\n">>

StEstablished == <<"0", "1">>

StListen == <<"0", "A">>

StTimeWait == <<"0", "6">>

TcpTable ==
    TcpHeader \o TcpLine(StEstablished) \o TcpLine(StListen) \o TcpLine(StEstablished)

Tcp6Table == TcpHeader \o TcpLine(StEstablished)

\* A line of /proc/net/dev: the name, right-aligned or flush left, then the
\* received bytes, seven more receive counters, and the transmitted bytes.
DevLine(pad, iface, rx, tx) ==
    pad \o iface \o <<":", " ">> \o Itoa(rx)
        \o <<" ", "0", " ", "0", " ", "0", " ", "0", " ", "0", " ", "0", " ", "0", " ">>
        \o Itoa(tx) \o <<"\n">>

DevHeader == <<"I", "n", "t", "e", "r", "|", "\n">>

\* The kernel's sources at one second: /proc/stat, /proc/meminfo, what statfs
\* answers for an existing path, /proc/net/tcp, /proc/net/tcp6, /proc/net/dev.
Kernel(stat, meminfo, statfs, tcp, tcp6, dev) ==
    [stat |-> stat, meminfo |-> meminfo, statfs |-> statfs,
     tcp |-> tcp, tcp6 |-> tcp6, dev |-> dev]

\* The kernels explored: two healthy ones (the second loaded, with interface
\* names flush left and no IPv6), one where nothing can be read, one with
\* sources that read but do not parse and a filesystem of zero blocks, and
\* one whose /proc/meminfo has no MemAvailable line.
KernelIdle ==
    Kernel(Stat(S1), File(MemInfo(8, 1, 2)), Statfs(8, 2, 1),
           File(TcpTable), File(Tcp6Table),
           File(DevHeader \o DevLine(<<" ", " ", " ", " ">>, IfLo, 5, 3)))

KernelLoaded ==
    Kernel(Stat(S2), File(MemInfo(8, 0, 0)), Statfs(4, 0, 2),
           File(TcpTable), Unreadable,
           File(DevHeader \o DevLine(<<>>, IfLo, 5, 3)))

\* The kernels on which every read succeeds or fails without a panic.
HealthyKernels == {KernelIdle, KernelLoaded}

Kernels ==
    { KernelIdle, KernelLoaded,
      Kernel(StatUnreadable, Unreadable, StatfsError,
             Unreadable, Unreadable, Unreadable),
      Kernel(StatUnparsable, File(MemLine(KwMemFree, 1) \o MemLine(KwMemAvailable, 2)),
             Statfs(0, 0, 1), File(TcpHeader), File(TcpHeader),
             File(DevHeader)),
      Kernel(Stat(S1), File(MemLine(KwMemTotal, 8) \o MemLine(KwMemFree, 1)),
             Statfs(8, 2, 1), File(TcpTable), File(Tcp6Table),
             File(DevHeader \o DevLine(<<" ", " ", " ", " ">>, IfLo, 5, 3))) }

\* syscall.Statfs(path): the empty path never resolves.
StatfsOf(k, path) == IF path = <<>> THEN StatfsError ELSE k.statfs

\* ---------------------------------------------------------------- state
VARIABLES
    config,          \* the loaded Config, read-only after start
    kernel,          \* what the kernel's sources hold in this second
    now,             \* seconds since config.startTime
    crashed,         \* a goroutine panicked: the process is gone
    cpuInitialized,  \* package variable of cpu_metric.go
    cpuCache,        \* package variable of cpu_metric.go
    bandwidthCache,  \* package variable of network_metric.go
    metricCache,     \* package variable of main.go: metric name -> MetricStatus
    wake,            \* per collector: the second its time.Sleep ends
    warmupFactor,    \* per collector: the factor its last tick applied
    resp,            \* the response of the health request being served
    cacheMutex,      \* package variable of main.go: who holds the lock
    pc,              \* per collector: asleep, between locks, or inside one
    pending,         \* per collector: the field stores its tick has yet to make
    rpc,             \* per consumer: idle, copying under RLock, or holding a copy
    snapshot,        \* per consumer: its local map `metrics`
    cursor,          \* per consumer: the keys its range loop has yet to visit
    lastPublish,     \* per key: the entry of its owner's most recent publish
    publishes,       \* every <<key, entry>> a collector has set out to publish
    reads,           \* snapshots begun so far
    call,            \* the function called last on its own: arguments and results
    cpuCacheMutex,   \* package variable of cpu_metric.go: who holds the lock
    bandwidthCacheMutex  \* package variable of network_metric.go: who holds the lock

vars == <<call, config, kernel, now, crashed, cpuInitialized, cpuCache, bandwidthCache,
          metricCache, wake, warmupFactor, resp, cacheMutex, pc, pending, rpc,
          snapshot, cursor, lastPublish, publishes, reads, cpuCacheMutex,
          bandwidthCacheMutex>>

\* What only the lock-level steps change.
lockVars == <<cacheMutex, pc, pending, rpc, snapshot, cursor, lastPublish,
              publishes, reads, cpuCacheMutex, bandwidthCacheMutex>>

Collectors == {"cpu", "memory", "disk", "network"}

\* The health handler and the terminal display.
Consumers == {"health", "display"}

\* time.Sleep at the end of each loop body.
Interval(c) == IF c = "disk" THEN DiskInterval ELSE CollectInterval

\* No function has been called on its own.
NoCall == [fn |-> "none"]

Init ==
    /\ config \in Configs
    /\ kernel \in Kernels
    /\ now = 0
    /\ crashed = FALSE
    /\ cpuInitialized = FALSE
    /\ cpuCache = ZeroSnapshot
    /\ bandwidthCache = <<>>
    /\ metricCache = <<>>
    /\ wake = [c \in Collectors |-> 0]
    /\ warmupFactor = [c \in Collectors |-> One]
    /\ resp = NoResponse
    /\ cacheMutex = Unlocked
    /\ pc = [c \in Collectors |-> "sleep"]
    /\ pending = [c \in Collectors |-> <<>>]
    /\ rpc = [r \in Consumers |-> "idle"]
    /\ snapshot = [r \in Consumers |-> <<>>]
    /\ cursor = [r \in Consumers |-> <<>>]
    /\ lastPublish = <<>>
    /\ publishes = {}
    /\ reads = 0
    /\ call = NoCall
    /\ cpuCacheMutex = "none"
    /\ bandwidthCacheMutex = "none"

\* A collector's loop body runs in the second its sleep ends, while the
\* process lives and no request is in service.
Due(c) == ~crashed /\ ~resp.served /\ wake[c] = now

\* The entries a tick sets out to publish, recorded.
Recorded(writes) == { <<writes[i].key, writes[i].entry>> : i \in 1..Len(writes) }

RECURSIVE LastOf(_, _)
LastOf(last, writes) ==
    IF writes = <<>> THEN last
    ELSE LastOf(CopyEntry(last, Head(writes).key, Head(writes).entry), Tail(writes))

\* The collector goes to sleep having applied the warmup factor of this second.
Sleep(c) ==
    /\ wake' = [wake EXCEPT ![c] = now + Interval(c)]
    /\ warmupFactor' = [warmupFactor EXCEPT ![c] = WarmupFactor(config, now)]

\* A whole tick's stores, each section under its lock, with nothing between.
StoreAll(sections) ==
    /\ \E writes \in {Flatten(sections)} :
           /\ metricCache' = PublishAll(metricCache, writes)
           /\ lastPublish' = LastOf(lastPublish, writes)
           /\ publishes' = publishes \cup Recorded(writes)
    /\ UNCHANGED <<cacheMutex, pc, pending, rpc, snapshot, cursor, reads,
                   cpuCacheMutex, bandwidthCacheMutex>>

\* What statfs answers for each configured path in this second.
StatfsAll ==
    [i \in 1..Len(config.Monitoring.DiskPaths) |->
       StatfsOf(kernel, config.Monitoring.DiskPaths[i])]

\* What /proc/net/dev holds when each configured interface is looked up.
DevAll == [i \in 1..Len(config.Monitoring.NetworkInterfaces) |-> kernel.dev]

\* The tick p of the CPU collector takes effect: baseline and stores.
CollectedCPU(p) ==
    /\ cpuInitialized' = p.cpuInitialized
    /\ cpuCache' = p.cpuCache
    /\ StoreAll(p.sections)

\* The tick p of the memory or disk collector takes effect.
Collected(p) ==
    /\ crashed' = p.panic
    /\ StoreAll(p.sections)

\* The tick p of the network collector takes effect.
CollectedNetwork(p) ==
    /\ bandwidthCache' = p.bandwidthCache
    /\ StoreAll(p.sections)

\* ------------------------------------------------------------- actions
\* One iteration of collectCPUMetric's loop.
CollectCPUMetric ==
    /\ Due("cpu")
    /\ \E p \in {CPUTick(kernel.stat, config, now, cpuInitialized, cpuCache)} :
           CollectedCPU(p)
    /\ Sleep("cpu")
    /\ UNCHANGED <<call, config, kernel, now, crashed, bandwidthCache, resp>>

\* One iteration of collectMemoryMetric's loop.
CollectMemoryMetric ==
    /\ Due("memory")
    /\ \E p \in {MemoryTick(kernel.meminfo, config, now)} : Collected(p)
    /\ Sleep("memory")
    /\ UNCHANGED <<call, config, kernel, now, cpuInitialized, cpuCache, bandwidthCache, resp>>

\* One iteration of collectDiskMetric's loop.
CollectDiskMetric ==
    /\ Due("disk")
    /\ \E p \in {DiskTick(StatfsAll, config, now)} : Collected(p)
    /\ Sleep("disk")
    /\ UNCHANGED <<call, config, kernel, now, cpuInitialized, cpuCache, bandwidthCache, resp>>

\* One iteration of collectNetworkMetric's loop.
CollectNetworkMetric ==
    /\ Due("network")
    /\ \E p \in {NetworkTick(kernel.tcp, kernel.tcp6, DevAll, config, now,
                            bandwidthCache)} : CollectedNetwork(p)
    /\ Sleep("network")
    /\ UNCHANGED <<call, config, kernel, now, crashed, cpuInitialized, cpuCache, resp>>

\* A GET /health is served: the cache is copied and the response built.
HealthRequest ==
    /\ ~crashed
    /\ ~resp.served
    /\ resp' = healthHandler(metricCache, now)
    /\ UNCHANGED <<call, config, kernel, now, crashed, cpuInitialized, cpuCache,
                   bandwidthCache, metricCache, wake, warmupFactor>>
    /\ UNCHANGED lockVars

\* The response has gone out.
HealthDone ==
    /\ resp.served
    /\ resp' = NoResponse
    /\ UNCHANGED <<call, config, kernel, now, crashed, cpuInitialized, cpuCache,
                   bandwidthCache, metricCache, wake, warmupFactor>>
    /\ UNCHANGED lockVars

\* A second passes once every collector whose sleep has ended has run; the
\* kernel's sources may then hold anything.
Tick ==
    /\ ~crashed
    /\ ~resp.served
    /\ now < MaxTime
    /\ \A c \in Collectors : wake[c] > now
    /\ now' = now + 1
    /\ kernel' \in Kernels
    /\ UNCHANGED <<call, config, crashed, cpuInitialized, cpuCache, bandwidthCache,
                   metricCache, wake, warmupFactor, resp>>
    /\ UNCHANGED lockVars

Next ==
    \/ CollectCPUMetric
    \/ CollectMemoryMetric
    \/ CollectDiskMetric
    \/ CollectNetworkMetric
    \/ HealthRequest
    \/ HealthDone
    \/ Tick

Spec == Init /\ [][Next]_vars

\* ------------------------------------------- the same, one lock step at a time
\* The keys of the store in the order a range loop visits them from its
\* first key on: Go starts a map iteration at a place of its choosing.
KeyOrder ==
    <<KeyCpuUsage, KeyCpuIOWait, KeyCpuIRQ, KeyCpuSoftIRQ, KeyMemory, KeyConnections,
      DiskKey(sanitizePath(PathRoot).name), DiskKey(sanitizePath(PathVarLog).name),
      BandwidthKey(IfLo)>>

RECURSIVE Present(_, _)
Present(keys, cache) ==
    IF keys = <<>> THEN <<>>
    ELSE IF Head(keys) \in DOMAIN cache
    THEN <<Head(keys)>> \o Present(Tail(keys), cache)
    ELSE Present(Tail(keys), cache)

Rotate(s, n) == SubSeq(s, n + 1, Len(s)) \o SubSeq(s, 1, n)

\* The collector has read its sources and evaluated them, which no one else
\* sees, and takes the lock for its first section; what is left of the tick
\* is the stores, section by section.  A tick with nothing to store sleeps.
Begin(c, sections) ==
    /\ pending' = [pending EXCEPT ![c] = FieldSections(sections)]
    /\ warmupFactor' = [warmupFactor EXCEPT ![c] = WarmupFactor(config, now)]
    /\ IF sections = <<>>
       THEN /\ wake' = [wake EXCEPT ![c] = now + Interval(c)]
            /\ UNCHANGED <<pc, cacheMutex>>
       ELSE /\ pc' = [pc EXCEPT ![c] = "locked"]
            /\ cacheMutex' = [cacheMutex EXCEPT !.writer = c]
            /\ UNCHANGED wake
    /\ UNCHANGED <<cpuCacheMutex, bandwidthCacheMutex, call,
                   config, kernel, now, metricCache, resp, rpc,
                   snapshot, cursor, lastPublish, publishes, reads>>

\* The tick p of the CPU collector: the baseline is kept, the stores begin.
BegunCPU(p) ==
    /\ cpuInitialized' = p.cpuInitialized
    /\ cpuCache' = p.cpuCache
    /\ Begin("cpu", p.sections)

\* The tick p of the memory or disk collector.
Begun(c, p) ==
    /\ crashed' = p.panic
    /\ Begin(c, p.sections)

\* The tick p of the network collector.
BegunNetwork(p) ==
    /\ bandwidthCache' = p.bandwidthCache
    /\ Begin("network", p.sections)

Woken(c) == ~crashed /\ pc[c] = "sleep" /\ wake[c] = now /\ CanLock(cacheMutex)

ReadCPU ==
    /\ Woken("cpu")
    /\ BegunCPU(CPUTick(kernel.stat, config, now, cpuInitialized, cpuCache))
    /\ UNCHANGED <<crashed, bandwidthCache>>

ReadMemory ==
    /\ Woken("memory")
    /\ Begun("memory", MemoryTick(kernel.meminfo, config, now))
    /\ UNCHANGED <<cpuInitialized, cpuCache, bandwidthCache>>

ReadDisk ==
    /\ Woken("disk")
    /\ Begun("disk", DiskTick(StatfsAll, config, now))
    /\ UNCHANGED <<cpuInitialized, cpuCache, bandwidthCache>>

ReadNetwork ==
    /\ Woken("network")
    /\ BegunNetwork(NetworkTick(kernel.tcp, kernel.tcp6, DevAll, config, now,
                                bandwidthCache))
    /\ UNCHANGED <<crashed, cpuInitialized, cpuCache>>

\* cacheMutex.Lock() of a later section.
Lock(c) ==
    /\ ~crashed
    /\ pc[c] = "ready"
    /\ pending[c] # <<>>
    /\ CanLock(cacheMutex)
    /\ cacheMutex' = [cacheMutex EXCEPT !.writer = c]
    /\ pc' = [pc EXCEPT ![c] = "locked"]
    /\ UNCHANGED <<cpuCacheMutex, bandwidthCacheMutex, call,
                   config, kernel, now, crashed, cpuInitialized, cpuCache,
                   bandwidthCache, metricCache, wake, warmupFactor, resp, pending,
                   rpc, snapshot, cursor, lastPublish, publishes, reads>>

\* The next field of metricCache[name] = MetricStatus{...} is stored.
Store(c) ==
    /\ ~crashed
    /\ pc[c] = "locked"
    /\ Head(pending[c]) # <<>>
    /\ LET w == Head(Head(pending[c]))
       IN  /\ metricCache' = StoreField(metricCache, w.key, w.field, w.value)
           /\ IF w.field = "Current"
              THEN /\ lastPublish' = CopyEntry(lastPublish, w.key, w.entry)
                   /\ publishes' = publishes \cup {<<w.key, w.entry>>}
              ELSE UNCHANGED <<lastPublish, publishes>>
    /\ pending' = [pending EXCEPT ![c] = <<Tail(Head(pending[c]))>> \o Tail(pending[c])]
    /\ UNCHANGED <<cpuCacheMutex, bandwidthCacheMutex, call,
                   config, kernel, now, crashed, cpuInitialized, cpuCache,
                   bandwidthCache, wake, warmupFactor, resp, cacheMutex, pc, rpc,
                   snapshot, cursor, reads>>

\* cacheMutex.Unlock(), and time.Sleep(...) after the last section.
Unlock(c) ==
    /\ ~crashed
    /\ pc[c] = "locked"
    /\ Head(pending[c]) = <<>>
    /\ cacheMutex' = [cacheMutex EXCEPT !.writer = "none"]
    /\ pending' = [pending EXCEPT ![c] = Tail(pending[c])]
    /\ IF Tail(pending[c]) = <<>>
       THEN /\ pc' = [pc EXCEPT ![c] = "sleep"]
            /\ wake' = [wake EXCEPT ![c] = now + Interval(c)]
       ELSE /\ pc' = [pc EXCEPT ![c] = "ready"]
            /\ UNCHANGED wake
    /\ UNCHANGED <<cpuCacheMutex, bandwidthCacheMutex, call,
                   config, kernel, now, crashed, cpuInitialized, cpuCache,
                   bandwidthCache, metricCache, warmupFactor, resp, rpc,
                   snapshot, cursor, lastPublish, publishes, reads>>

\* cacheMutex.RLock(); metrics := make(map[string]MetricStatus); the range
\* loop starts at a key of the runtime's choosing.
RLock(r) ==
    /\ ~crashed
    /\ rpc[r] = "idle"
    /\ reads < MaxReads
    /\ CanRLock(cacheMutex)
    /\ cacheMutex' = [cacheMutex EXCEPT !.readers = @ \cup {r}]
    /\ rpc' = [rpc EXCEPT ![r] = "copying"]
    /\ snapshot' = [snapshot EXCEPT ![r] = <<>>]
    /\ LET keys == Present(KeyOrder, metricCache)
       IN  \E n \in 0..(IF keys = <<>> THEN 0 ELSE Len(keys) - 1) :
               cursor' = [cursor EXCEPT ![r] = Rotate(keys, n)]
    /\ reads' = reads + 1
    /\ UNCHANGED <<cpuCacheMutex, bandwidthCacheMutex, call,
                   config, kernel, now, crashed, cpuInitialized, cpuCache,
                   bandwidthCache, metricCache, wake, warmupFactor, resp, pc,
                   pending, lastPublish, publishes>>

\* metrics[k] = v
Copy(r) ==
    /\ ~crashed
    /\ rpc[r] = "copying"
    /\ cursor[r] # <<>>
    /\ snapshot' = [snapshot EXCEPT
                      ![r] = CopyEntry(@, Head(cursor[r]), metricCache[Head(cursor[r])])]
    /\ cursor' = [cursor EXCEPT ![r] = Tail(@)]
    /\ UNCHANGED <<cpuCacheMutex, bandwidthCacheMutex, call,
                   config, kernel, now, crashed, cpuInitialized, cpuCache,
                   bandwidthCache, metricCache, wake, warmupFactor, resp, cacheMutex,
                   pc, pending, rpc, lastPublish, publishes, reads>>

\* A consumer that leaves the copy loop with the read lock still held, as
\* with a deferred RUnlock.
RUnlockDeferred(r) ==
    /\ ~crashed
    /\ rpc[r] = "copying"
    /\ cursor[r] = <<>>
    /\ rpc' = [rpc EXCEPT ![r] = "holding"]
    /\ UNCHANGED <<cpuCacheMutex, bandwidthCacheMutex, call,
                   config, kernel, now, crashed, cpuInitialized, cpuCache,
                   bandwidthCache, metricCache, wake, warmupFactor, resp, pc,
                   pending, snapshot, cursor, lastPublish, publishes, reads,
                   cacheMutex>>

\* cacheMutex.RUnlock()
RUnlock(r) ==
    /\ ~crashed
    /\ rpc[r] = "copying"
    /\ cursor[r] = <<>>
    /\ cacheMutex' = [cacheMutex EXCEPT !.readers = @ \ {r}]
    /\ rpc' = [rpc EXCEPT ![r] = "holding"]
    /\ UNCHANGED <<cpuCacheMutex, bandwidthCacheMutex, call,
                   config, kernel, now, crashed, cpuInitialized, cpuCache,
                   bandwidthCache, metricCache, wake, warmupFactor, resp, pc,
                   pending, snapshot, cursor, lastPublish, publishes, reads>>

\* The consumer is done with its copy: the response is written, the line printed.
Consume(r) ==
    /\ ~crashed
    /\ rpc[r] = "holding"
    /\ rpc' = [rpc EXCEPT ![r] = "idle"]
    /\ snapshot' = [snapshot EXCEPT ![r] = <<>>]
    /\ UNCHANGED <<cpuCacheMutex, bandwidthCacheMutex, call,
                   config, kernel, now, crashed, cpuInitialized, cpuCache,
                   bandwidthCache, metricCache, wake, warmupFactor, resp, cacheMutex,
                   pc, pending, cursor, lastPublish, publishes, reads>>

\* A second passes once every collector is asleep and the lock is free.
TickLocks ==
    /\ ~crashed
    /\ now < MaxTimeLocks
    /\ cacheMutex = Unlocked
    /\ \A c \in Collectors : pc[c] = "sleep" /\ wake[c] > now
    /\ now' = now + 1
    /\ kernel' \in HealthyKernels
    /\ UNCHANGED <<call, config, crashed, cpuInitialized, cpuCache, bandwidthCache,
                   metricCache, wake, warmupFactor, resp>>
    /\ UNCHANGED lockVars

InitLocks ==
    /\ Init
    /\ config = RampConfig
    /\ kernel \in HealthyKernels

NextLocks ==
    \/ ReadCPU
    \/ ReadMemory
    \/ ReadDisk
    \/ ReadNetwork
    \/ \E c \in Collectors : Lock(c)
    \/ \E c \in Collectors : Store(c)
    \/ \E c \in Collectors : Unlock(c)
    \/ \E r \in Consumers : RLock(r)
    \/ \E r \in Consumers : Copy(r)
    \/ \E r \in Consumers : RUnlock(r)
    \/ \E r \in Consumers : Consume(r)
    \/ TickLocks

SpecLocks == InitLocks /\ [][NextLocks]_vars

\* ------------------------------------------ the functions, called one by one
\* A third sample of /proc/stat: since S2 two more ticks of user time, and
\* an iowait counter that went back by one, as the kernel's may.
S3 == Snapshot(7, 0, 1, 4, 0, 0, 1, 0)

CpuSamples == {S1, S2, S3}

\* The kB values /proc/meminfo is given.
MemValues == 0..3

PathTmp == <<"/", "t", "m", "p">>

PathOptAppData ==
    <<"/", "o", "p", "t", "/", "a", "p", "p", "/", "d", "a", "t", "a">>

PathHomeOfRoot == <<"/", "r", "o", "o", "t">>

\* The disk paths a configuration may name.
Paths ==
    {PathRoot, PathVarLog, PathTmp, PathOptAppData, PathHomeOfRoot}

\* The rates formatBandwidth is given: the tests' values, the limits of
\* each prefix, and values that need rounding.
Rates ==
    { Scaled(0, 1, 0), Scaled(1, 2, 0), Scaled(3, 2, 0), Scaled(500, 1, 0),
      Scaled(999, 1, 0), Scaled(1999, 2, 0), Scaled(1000, 1, 0),
      Scaled(1234, 1, 0), Scaled(1250, 1, 0), Scaled(1500, 1, 0),
      Scaled(1750, 1, 0), Scaled(999999, 1, 0), Scaled(1000000, 1, 0),
      Scaled(2500000, 1, 0), Scaled(1500000000, 1, 0),
      Scaled(2000000000, 1, 0), Scaled(1, 1, 4), Scaled(999, 1, 4),
      Scaled(1, 1, 5), Scaled(3, 2, 5), Scaled(999, 1, 5), Scaled(1, 1, 6),
      Scaled(5, 1, 6) }

Blanks == <<" ", " ", " ", " ">>

\* What /proc/net/dev may hold, with the bytes it reports for the interface
\* lo: unreadable, without the interface, or with its line, the name
\* right-aligned (as the kernel prints a short name) or flush left.
DevSource(dev, listed, total) == [dev |-> dev, listed |-> listed, total |-> total]

DevSources ==
    { DevSource(Unreadable, FALSE, 0),
      DevSource(File(DevHeader), FALSE, 0),
      DevSource(File(DevHeader \o DevLine(Blanks, IfLo, 5, 3)), TRUE, 8),
      DevSource(File(DevHeader \o DevLine(<<>>, IfLo, 5, 3)), TRUE, 8),
      DevSource(File(DevHeader \o DevLine(<<>>, IfLo, 1, 1)), TRUE, 2) }

\* getCPUMetrics() on a /proc/stat that reads and parses.
CallGetCPUMetrics ==
    \E sample \in CpuSamples :
        LET r == getCPUMetrics(Stat(sample), cpuInitialized, cpuCache)
        IN  /\ call' = [fn |-> "getCPUMetrics", in |-> sample,
                        cold |-> ~cpuInitialized, cache |-> cpuCache,
                        err |-> r.err, out |-> r.metrics]
            /\ cpuInitialized' = r.cpuInitialized
            /\ cpuCache' = r.cpuCache
            /\ UNCHANGED <<config, kernel, now, crashed, bandwidthCache, metricCache,
                           wake, warmupFactor, resp, lockVars>>

\* getMemoryUsage() on a /proc/meminfo of the kernel's three first lines.
CallGetMemoryUsage ==
    \E memTotal \in MemValues, memAvailable \in MemValues :
        /\ call' = [fn |-> "getMemoryUsage",
                    in |-> [memTotal |-> memTotal, memAvailable |-> memAvailable],
                    out |-> getMemoryUsage(File(MemInfo(memTotal, 0, memAvailable)))]
        /\ UNCHANGED <<config, kernel, now, crashed, cpuInitialized, cpuCache,
                       bandwidthCache, metricCache, wake, warmupFactor, resp, lockVars>>

\* sanitizePath(path) and the metric name made of it, for two paths.
CallSanitizePath ==
    \E p \in Paths, q \in Paths :
        /\ call' = [fn |-> "sanitizePath", in |-> <<p, q>>,
                    out |-> <<sanitizePath(p), sanitizePath(q)>>,
                    metricName |-> <<DiskKey(sanitizePath(p).name),
                                     DiskKey(sanitizePath(q).name)>>]
        /\ UNCHANGED <<config, kernel, now, crashed, cpuInitialized, cpuCache,
                       bandwidthCache, metricCache, wake, warmupFactor, resp, lockVars>>

\* formatBandwidth(bytesPerSec)
CallFormatBandwidth ==
    \E bytesPerSec \in Rates :
        /\ call' = [fn |-> "formatBandwidth", in |-> bytesPerSec,
                    out |-> formatBandwidth(bytesPerSec)]
        /\ UNCHANGED <<config, kernel, now, crashed, cpuInitialized, cpuCache,
                       bandwidthCache, metricCache, wake, warmupFactor, resp, lockVars>>

\* What getNetworkBandwidth(iface) makes of the source src at currentTime.
CalledGetNetworkBandwidth(src, iface, currentTime, r) ==
    /\ call' = [fn |-> "getNetworkBandwidth", in |-> src, iface |-> iface,
                exists |-> HasBaseline(bandwidthCache, iface),
                snapshot |-> IF HasBaseline(bandwidthCache, iface)
                             THEN bandwidthCache[iface]
                             ELSE [totalBytes |-> 0, timestamp |-> 0],
                currentTime |-> currentTime, err |-> r.err, out |-> r.val]
    /\ bandwidthCache' = r.bandwidthCache
    /\ now' = currentTime

\* getNetworkBandwidth("lo"), in the instant of the call before or later.
CallGetNetworkBandwidth ==
    \E src \in DevSources, currentTime \in {now, now + 1} :
        /\ currentTime <= MaxCallTime
        /\ CalledGetNetworkBandwidth(src, IfLo, currentTime,
               getNetworkBandwidth(src.dev, IfLo, bandwidthCache, currentTime))
        /\ UNCHANGED <<config, kernel, crashed, cpuInitialized, cpuCache,
                       metricCache, wake, warmupFactor, resp, lockVars>>

\* The connection tables read: unreadable, or the header and one line for
\* each connection, given by its state.
TcpStates ==
    LET St == {StEstablished, StListen, StTimeWait}
    IN  {<<>>} \cup { <<a>> : a \in St } \cup { <<a, b>> : a, b \in St }

TcpInputs ==
    {[ok |-> FALSE, states |-> <<>>]} \cup { [ok |-> TRUE, states |-> s] : s \in TcpStates }

RECURSIVE TcpLines(_)
TcpLines(states) ==
    IF states = <<>> THEN <<>> ELSE TcpLine(Head(states)) \o TcpLines(Tail(states))

TcpFile(in) == IF in.ok THEN File(TcpHeader \o TcpLines(in.states)) ELSE Unreadable

\* getNetworkConnections()
CallGetNetworkConnections ==
    \E tcp \in TcpInputs, tcp6 \in TcpInputs :
        /\ call' = [fn |-> "getNetworkConnections", in |-> [tcp |-> tcp, tcp6 |-> tcp6],
                    out |-> getNetworkConnections(TcpFile(tcp), TcpFile(tcp6))]
        /\ UNCHANGED <<config, kernel, now, crashed, cpuInitialized, cpuCache,
                       bandwidthCache, metricCache, wake, warmupFactor, resp, lockVars>>

\* The warmup durations configured, in seconds, negative and zero among
\* them, and the seconds elapsed since the start.
Durations == (0 - 1)..MaxCallTime

ElapsedTimes == 0..(MaxCallTime + 1)

\* getWarmupFactor()
CallGetWarmupFactor ==
    \E duration \in Durations, elapsed \in ElapsedTimes :
        /\ call' = [fn |-> "getWarmupFactor", duration |-> duration, elapsed |-> elapsed,
                    out |-> getWarmupFactor(
                                Config(TRUE, duration, DefaultThresholds,
                                       <<PathRoot>>, <<IfLo>>),
                                elapsed)]
        /\ UNCHANGED <<config, kernel, now, crashed, cpuInitialized, cpuCache,
                       bandwidthCache, metricCache, wake, warmupFactor, resp, lockVars>>

InitCalls ==
    /\ Init
    /\ config = RampConfig
    /\ kernel = KernelIdle

NextCalls ==
    \/ CallGetCPUMetrics
    \/ CallGetMemoryUsage
    \/ CallSanitizePath
    \/ CallFormatBandwidth
    \/ CallGetNetworkBandwidth

SpecCalls == InitCalls /\ [][NextCalls]_vars

\* The two functions that read no variable of the package but the
\* configuration, called one at a time.
NextReaders ==
    \/ CallGetNetworkConnections
    \/ CallGetWarmupFactor

SpecReaders == InitCalls /\ [][NextReaders]_vars

\* ======================================================================
\* Properties
\* ======================================================================

CpuKeys == {KeyCpuUsage, KeyCpuIOWait, KeyCpuIRQ, KeyCpuSoftIRQ}

\* The thresholded metrics of the configuration: the name, the configured
\* maximum and the collector that owns it.
Thresholded ==
    { [key |-> KeyCpuUsage, max |-> config.Thresholds.MaxCPU, who |-> "cpu"],
      [key |-> KeyCpuIOWait, max |-> config.Thresholds.MaxIOWait, who |-> "cpu"],
      [key |-> KeyCpuIRQ, max |-> config.Thresholds.MaxIRQ, who |-> "cpu"],
      [key |-> KeyCpuSoftIRQ, max |-> config.Thresholds.MaxSoftIRQ, who |-> "cpu"],
      [key |-> KeyMemory, max |-> config.Thresholds.MaxMemory, who |-> "memory"],
      [key |-> KeyConnections, max |-> config.Thresholds.MaxConnections,
       who |-> "network"] }
    \cup { [key |-> DiskKey(sanitizePath(config.Monitoring.DiskPaths[i]).name),
            max |-> config.Thresholds.MaxDisk, who |-> "disk"] :
             i \in { j \in 1..Len(config.Monitoring.DiskPaths) :
                       ~sanitizePath(config.Monitoring.DiskPaths[j]).panic } }

BandwidthKeys ==
    { BandwidthKey(config.Monitoring.NetworkInterfaces[i]) :
        i \in 1..Len(config.Monitoring.NetworkInterfaces) }

\* Collector c ran its loop body in this very second (and sleeps since).
Ticked(c) == wake[c] = now + Interval(c)

\* Whether the ramp is still rising at `elapsed` seconds.
Ramping(elapsed) == config.Warmup.Enabled /\ elapsed < config.Warmup.Duration

\* x > max * factor(elapsed), in integers: the factor is elapsed/Duration
\* while the ramp rises and 1 otherwise.  NaN exceeds nothing.
ExceedsScaled(x, max, elapsed) ==
    /\ x.k # "nan"
    /\ \/ x.k = "inf"
       \/ IF Ramping(elapsed)
          THEN x.n * max.d * config.Warmup.Duration > max.n * elapsed * x.d
          ELSE x.n * max.d > max.n * x.d

\* x = max * factor(elapsed), in integers.
IsScaled(x, max, elapsed) ==
    /\ x.k = "num"
    /\ IF Ramping(elapsed)
       THEN x.n * max.d * config.Warmup.Duration = max.n * elapsed * x.d
       ELSE x.n * max.d = max.n * x.d

\* C1: every thresholded entry published in this second has Status "KO" if
\* and only if its Current is above the effective maximum of this second
\* (the configured maximum times the warmup factor), so that equality is "OK".
C1_StatusIffAboveEffectiveMax ==
    \A th \in Thresholded :
        (Ticked(th.who) /\ ~crashed) =>
            /\ th.key \in DOMAIN metricCache
            /\ metricCache[th.key].Status \in {"OK", "KO"}
            /\ metricCache[th.key].Status = "KO"
                 <=> ExceedsScaled(metricCache[th.key].Current, th.max, now)

\* C1 witness: a tick has published one entry above its effective maximum
\* ("KO") and one exactly at it ("OK").
C1_Witness ==
    /\ ~crashed
    /\ \E a, b \in Thresholded :
         /\ Ticked(a.who) /\ Ticked(b.who)
         /\ a.key \in DOMAIN metricCache /\ b.key \in DOMAIN metricCache
         /\ metricCache[a.key].Status = "KO"
         /\ metricCache[b.key].Status = "OK"
         /\ metricCache[b.key].Current = metricCache[b.key].Max

\* C2 (as claimed): the response in service has status "KO" exactly when an
\* entry of its snapshot is "KO", code 503 exactly then and 200 otherwise,
\* and a body that carries that status and the entries of that snapshot.
C2_HealthResponse ==
    resp.served =>
        LET ko == \E k \in DOMAIN resp.snapshot : resp.snapshot[k].Status = "KO"
        IN  /\ resp.code = (IF ko THEN 503 ELSE 200)
            /\ resp.body.written
            /\ resp.body.status = (IF ko THEN "KO" ELSE "OK")
            /\ resp.body.metrics = resp.snapshot

\* C3: whenever no collector is inside a critical section, every key holds
\* the entry of its owner's most recent publish; and every entry of every
\* consumer's copy is an entry some publish stored as a whole, never a mix of
\* the fields of two publishes.
C3_NoLostPublishNoTornEntry ==
    /\ (\A c \in Collectors : pc[c] # "locked") =>
          \A k \in DOMAIN lastPublish :
              k \in DOMAIN metricCache /\ metricCache[k] = lastPublish[k]
    /\ \A r \in Consumers :
          \A k \in DOMAIN snapshot[r] : <<k, snapshot[r][k]>> \in publishes

\* C3 witness: all collectors are between ticks, a key has been published
\* twice with different entries, and a consumer holds a copy it took between
\* the publishes of two collectors, with some but not all of the keys.
C3_Witness ==
    /\ \A c \in Collectors : pc[c] = "sleep"
    /\ \E k \in DOMAIN lastPublish :
          \E p \in publishes : p[1] = k /\ p[2] # lastPublish[k]
    /\ \E r \in Consumers :
          /\ rpc[r] = "holding"
          /\ snapshot[r] # <<>>
          /\ DOMAIN snapshot[r] # DOMAIN metricCache

\* C4: what a consumer has copied so far is what the store holds, the copy
\* it leaves the read lock with is the store as it is at that instant, and
\* nothing changes the copy while the consumer holds it.
C4_SnapshotIsPointInTime ==
    [][ \A r \in Consumers :
          /\ rpc[r] = "copying" =>
                \A k \in DOMAIN snapshot[r] : snapshot[r][k] = metricCache[k]
          /\ (rpc[r] = "copying" /\ rpc'[r] = "holding") =>
                snapshot'[r] = metricCache
          /\ (rpc[r] = "holding" /\ rpc'[r] = "holding") =>
                snapshot'[r] = snapshot[r]
      ]_vars

\* C4 witness: a consumer holds a copy that a later publish has left behind.
C4_Witness ==
    \E r \in Consumers :
        /\ rpc[r] = "holding"
        /\ snapshot[r] # <<>>
        /\ \E k \in DOMAIN snapshot[r] : metricCache[k] # snapshot[r][k]

Ran(c) == wake'[c] # wake[c]

\* C6: the first successful getCPUMetrics stores the sample read as the
\* baseline and yields zeros; the first successful getNetworkBandwidth of an
\* interface does the same for that interface; a baseline once stored stays
\* stored, and a later successful CPU reading is computed against it (busy
\* time since the baseline gives a non-zero usage).
C6_ColdStartOnce ==
    [][ /\ cpuInitialized => cpuInitialized'
        /\ DOMAIN bandwidthCache \subseteq DOMAIN bandwidthCache'
        /\ (Ran("cpu") /\ kernel.stat.ok /\ kernel.stat.parsed) =>
             /\ cpuInitialized'
             /\ cpuCache' = kernel.stat.sample
             /\ ~cpuInitialized =>
                  \A k \in CpuKeys : metricCache'[k].Current = Zero
             /\ ( /\ cpuInitialized
                  /\ \E f \in {"user", "nice", "system"} :
                       kernel.stat.sample[f] > cpuCache[f]
                  /\ \A f \in CpuFields : kernel.stat.sample[f] >= cpuCache[f] ) =>
                  metricCache'[KeyCpuUsage].Current # Zero
        /\ \A i \in 1..Len(config.Monitoring.NetworkInterfaces) :
             LET iface == config.Monitoring.NetworkInterfaces[i]
                 sample == FindInterface(kernel.dev.data, iface, 0, 0)
             IN  (Ran("network") /\ kernel.dev.ok /\ ~sample.err) =>
                   /\ iface \in DOMAIN bandwidthCache'
                   /\ bandwidthCache'[iface] =
                        [totalBytes |-> UAdd(sample.rxBytes, sample.txBytes),
                         timestamp |-> now]
                   /\ iface \notin DOMAIN bandwidthCache =>
                        metricCache'[BandwidthKey(iface)].Current = Zero
      ]_vars

\* C6 witness: both baselines are stored and a CPU reading computed against
\* the baseline has been published.
C6_Witness ==
    /\ cpuInitialized
    /\ cpuCache # ZeroSnapshot
    /\ DOMAIN bandwidthCache # {}
    /\ KeyCpuUsage \in DOMAIN metricCache
    /\ metricCache[KeyCpuUsage].Current # Zero

\* C7: the factor a collector applies at `now` seconds is 1 when warmup is
\* disabled, 1 once now >= Duration, now/Duration before that; and the factor
\* a collector applies never decreases from one of its ticks to the next.
C7_WarmupFactor ==
    [][ \A c \in Collectors :
          Ran(c) =>
            /\ warmupFactor'[c].k = "num"
            /\ IF Ramping(now)
               THEN warmupFactor'[c].n * config.Warmup.Duration
                      = now * warmupFactor'[c].d
               ELSE warmupFactor'[c] = One
            /\ wake[c] > 0 =>
                 warmupFactor'[c].n * warmupFactor[c].d
                   >= warmupFactor[c].n * warmupFactor'[c].d
      ]_vars

\* C7 witness: a collector has applied a factor strictly between 0 and 1 and
\* another one the factor 1 reached at now = Duration.
C7_Witness ==
    /\ config.Warmup.Enabled
    /\ config.Warmup.Duration > 0
    /\ \E c \in Collectors :
         /\ Ticked(c) /\ now = config.Warmup.Duration
         /\ warmupFactor[c] = One
    /\ \E c \in Collectors :
         /\ wake[c] > 0
         /\ warmupFactor[c].n > 0
         /\ warmupFactor[c].n < warmupFactor[c].d

\* C8 (as claimed): a thresholded entry is "KO" only if its reading is above
\* the configured maximum, so that no entry is "KO" during warmup for a
\* reading that does not exceed the configured maximum.
C8_NoFalseKO ==
    \A th \in Thresholded :
        (th.key \in DOMAIN metricCache /\ metricCache[th.key].Status = "KO") =>
            FGt(metricCache[th.key].Current, th.max)

\* C9: the Max of every thresholded entry published in this second is the
\* configured maximum times the warmup factor of this second, and with warmup
\* disabled every thresholded entry of the store carries the configured maximum
\* itself.
C9_MaxIsScaledConfigured ==
    /\ \A th \in Thresholded :
         (Ticked(th.who) /\ ~crashed) =>
             /\ th.key \in DOMAIN metricCache
             /\ IsScaled(metricCache[th.key].Max, th.max, now)
    /\ ~config.Warmup.Enabled =>
         \A th \in Thresholded :
             th.key \in DOMAIN metricCache => metricCache[th.key].Max = th.max

\* C9 witness: an entry published half-way up the ramp carries a Max strictly
\* between 0 and its configured maximum.
C9_Witness ==
    /\ ~crashed
    /\ Ramping(now)
    /\ \E th \in Thresholded :
         /\ Ticked(th.who)
         /\ th.key \in DOMAIN metricCache
         /\ FGt(metricCache[th.key].Max, Zero)
         /\ FGt(th.max, metricCache[th.key].Max)

\* Whether the read behind a thresholded metric fails on the kernel's sources
\* of this second: the source is unreadable or cannot be parsed.
ReadFails(th) ==
    CASE th.who = "cpu" -> ~kernel.stat.ok \/ ~kernel.stat.parsed
      [] th.who = "memory" ->
           LET r == getMemoryUsage(kernel.meminfo) IN r.err \/ r.panic
      [] th.who = "network" -> ~kernel.tcp.ok
      [] OTHER -> ~kernel.statfs.ok

\* C10 (as claimed): a collector whose read fails in this second has published
\* Current = 0 with the status of 0 against the effective maximum ("OK") and
\* is on its way to the next tick, the process alive.
C10_FailedReadPublishesZero ==
    \A th \in Thresholded :
        (Ticked(th.who) /\ ReadFails(th)) =>
            /\ ~crashed
            /\ th.key \in DOMAIN metricCache
            /\ metricCache[th.key].Current = Zero
            /\ metricCache[th.key].Status = "OK"

\* C11 (as claimed): whatever the sources hold and whatever paths and
\* interfaces are configured, no collector's goroutine panics: the process
\* lives, and every collector is in its loop, due now or asleep until its
\* next tick.
C11_NoFailureIsFatal ==
    /\ ~crashed
    /\ \A c \in Collectors : wake[c] >= now /\ wake[c] <= now + Interval(c)

\* C12 (as claimed): a call of getNetworkBandwidth for an interface with a
\* stored baseline (b1 at t1), on a /proc/net/dev that reports b2 bytes for the
\* interface at t2, returns no error; it returns (b2 - b1)/(t2 - t1) when
\* t2 > t1 and b2 >= b1, and 0 when t2 - t1 is zero or negative; and it leaves
\* (b2, t2) as the baseline.
C12_RateFromBaseline ==
    (call.fn = "getNetworkBandwidth" /\ call.exists /\ call.in.listed) =>
        /\ ~call.err
        /\ (call.currentTime > call.snapshot.timestamp
              /\ call.in.total >= call.snapshot.totalBytes)
             => call.out = Num(call.in.total - call.snapshot.totalBytes,
                               call.currentTime - call.snapshot.timestamp)
        /\ call.currentTime <= call.snapshot.timestamp => call.out = Zero
        /\ bandwidthCache[call.iface] =
             [totalBytes |-> call.in.total, timestamp |-> call.currentTime]

\* C13 (as claimed): a call of getNetworkBandwidth over a degenerate interval,
\* the clock not having advanced since the baseline or the bytes reported for
\* the interface being fewer than the baseline's, returns no error and a rate
\* of exactly zero, and every rate returned is a number that is not negative
\* and below 2^64 bytes per second of counter wrap-around.
C13_DegenerateIntervalIsZero ==
    (call.fn = "getNetworkBandwidth" /\ call.exists /\ call.in.dev.ok) =>
        /\ call.out.k = "num" /\ call.out.n >= 0
        /\ (\/ call.currentTime <= call.snapshot.timestamp
            \/ call.in.listed /\ call.in.total < call.snapshot.totalBytes)
             => ~call.err /\ call.out = Zero

\* C14: every tick of the network collector leaves, for every configured
\* interface, a bandwidth entry with status "OK" and max 0, whatever was
\* measured and whatever the warmup factor; and a health response that
\* reports KO (503) has an entry other than a bandwidth entry that is KO.
C14_BandwidthAlwaysOK ==
    [][ /\ Ran("network") =>
             \A k \in BandwidthKeys :
                 /\ k \in DOMAIN metricCache'
                 /\ metricCache'[k].Status = "OK"
                 /\ metricCache'[k].Max = Zero
        /\ (resp'.served /\ resp'.code = 503) =>
             /\ \A k \in BandwidthKeys \cap DOMAIN resp'.snapshot :
                    resp'.snapshot[k].Status = "OK"
             /\ \E k \in DOMAIN resp'.snapshot \ BandwidthKeys :
                    resp'.snapshot[k].Status = "KO" ]_vars

\* C14 witness: while the ramp is rising the network collector has ticked,
\* its connection count is held against a scaled maximum and its bandwidth
\* entry against none, and a health response is KO with the bandwidth entry
\* in it.
C14_Witness ==
    /\ Ticked("network")
    /\ Ramping(now) /\ now > 0
    /\ FGt(config.Thresholds.MaxConnections, metricCache[KeyConnections].Max)
    /\ \A k \in BandwidthKeys :
           /\ k \in DOMAIN metricCache
           /\ metricCache[k] = MetricStatus(Zero, Zero, "OK")
    /\ resp.served /\ resp.code = 503
    /\ BandwidthKeys \subseteq DOMAIN resp.snapshot

\* A float64 within [0, 100].
IsPercentage(x) == x.k = "num" /\ x.n >= 0 /\ x.n <= 100 * x.d

\* C15 (as claimed): whatever the eight counters of successive successful
\* reads of /proc/stat are, every call of getCPUMetrics returns Usage,
\* IOWait, IRQ and SoftIRQ each within [0, 100].
C15_CPUPercentagesInRange ==
    call.fn = "getCPUMetrics" =>
        /\ ~call.err
        /\ IsPercentage(call.out.Usage)
        /\ IsPercentage(call.out.IOWait)
        /\ IsPercentage(call.out.IRQ)
        /\ IsPercentage(call.out.SoftIRQ)

\* C16 (as claimed): on a /proc/meminfo whose MemTotal and MemAvailable lines
\* parse to (total, available), getMemoryUsage returns a read failure when
\* total is 0 and otherwise a value within [0, 100], which is
\* (total - available)/total*100.
C16_MemoryPercentage ==
    call.fn = "getMemoryUsage" =>
        /\ ~call.out.panic
        /\ call.in.memTotal = 0 => call.out.err
        /\ call.in.memTotal # 0 =>
             /\ ~call.out.err
             /\ IsPercentage(call.out.val)
             /\ call.out.val.n * call.in.memTotal
                  = (call.in.memTotal - call.in.memAvailable) * 100 * call.out.val.d

\* C17 (as claimed): two different configured disk paths get two different
\* metric names "disk_" + sanitizePath(path), so neither path's entry is
\* stored under the other's key.
C17_DistinctDiskKeys ==
    call.fn = "sanitizePath" =>
        (call.in[1] # call.in[2] => call.metricName[1] # call.metricName[2])

\* What the claim says sanitizePath makes of an absolute path.
IsSanitized(path, name) ==
    /\ path = <<"/">> => name = <<"r", "o", "o", "t">>
    /\ path # <<"/">> =>
         /\ Len(name) = Len(path) - 1
         /\ \A i \in 1..Len(name) :
                name[i] = (IF path[i + 1] = "/" THEN "_" ELSE path[i + 1])
    /\ path = PathVarLog => name = <<"v", "a", "r", "_", "l", "o", "g">>
    /\ path = PathTmp => name = <<"t", "m", "p">>
    /\ path = PathOptAppData =>
         name = <<"o", "p", "t", "_", "a", "p", "p", "_", "d", "a", "t", "a">>

\* C18: sanitizePath maps "/" to "root" and any other absolute path to the
\* path without its first character and with "_" for every other "/"
\* ("/var/log" to "var_log", "/tmp" to "tmp", "/opt/app/data" to
\* "opt_app_data"), without a panic, and the same path always to the same name.
C18_SanitizePath ==
    call.fn = "sanitizePath" =>
        /\ \A i \in 1..2 :
               ~call.out[i].panic /\ IsSanitized(call.in[i], call.out[i].name)
        /\ call.in[1] = call.in[2] => call.out[1] = call.out[2]

\* C18 witness: sanitizePath has been called on "/opt/app/data" and on "/".
C18_Witness ==
    /\ call.fn = "sanitizePath"
    /\ call.in = <<PathOptAppData, PathRoot>>
    /\ call.out[1].name = <<"o", "p", "t", "_", "a", "p", "p", "_", "d", "a", "t", "a">>
    /\ call.out[2].name = <<"r", "o", "o", "t">>

\* The k in 1..5 of the largest 1000^k not above x, for x of 1000 or more.
Magnitude(x) == CHOOSE k \in 1..5 : ~SLt(x, k) /\ (k = 5 \/ SLt(x, k + 1))

\* Whether every character of s is a decimal digit, and there is one.
AllDigits(s) == s # <<>> /\ \A i \in 1..Len(s) : IsDigit(s[i])

\* Whether t is n/d * 1000^e rounded to a whole number.
IsRounded(t, x) ==
    2 * Abs(x.n * (Unit ^ x.e) - t * x.d) <= x.d

\* Whether text is x printed with one decimal place and the suffix.
IsOneDecimal(text, x, suffix) ==
    /\ Len(text) >= 4
    /\ text[Len(text)] = suffix
    /\ IsDigit(text[Len(text) - 1])
    /\ text[Len(text) - 2] = "."
    /\ AllDigits(SubSeq(text, 1, Len(text) - 3))
    /\ IsRounded(ScanDigits(text, 0, 0).val * 10 + DigitVal(text[Len(text) - 1]),
                 Scaled(x.n * 10, x.d, x.e))

HeldKeys(c) ==
    IF pending[c] = <<>> THEN {}
    ELSE { Head(pending[c])[i].key : i \in 1..Len(Head(pending[c])) }

\* Collector c takes the write lock in this step.
Acquires(c) == cacheMutex.writer # c /\ cacheMutex'.writer = c

\* Collector c gives the write lock back in this step.
Releases(c) == cacheMutex.writer = c /\ cacheMutex'.writer # c

\* Only the holder of the write lock stores, a key it took the lock for, and
\* it gives the lock back once nothing is left to store under it.
StoresUnderLock ==
    /\ metricCache' # metricCache =>
         \E c \in Collectors :
             /\ cacheMutex.writer = c /\ cacheMutex'.writer = c
             /\ \A k \in DOMAIN metricCache' :
                    (k \notin DOMAIN metricCache \/ metricCache'[k] # metricCache[k])
                        => k \in HeldKeys(c)
    /\ \A c \in Collectors : Releases(c) => HeldKeys(c) = {}

\* C20 (as claimed): whenever a collector takes the write lock, it is for the
\* stores of exactly one key, and those are the only stores made until the
\* lock is given back.
C20_OneKeyPerLock ==
    [][ /\ StoresUnderLock
        /\ \A c \in Collectors : Acquires(c) => Cardinality(HeldKeys(c)') = 1 ]_vars

\* C20 (amended): the memory, disk and network collectors take the write lock
\* for the stores of exactly one key; the CPU collector takes it once per tick
\* for the stores of its four keys; those are the only stores made until the
\* lock is given back.
C20_OneKeyPerLockButCPU ==
    [][ /\ StoresUnderLock
        /\ \A c \in Collectors :
               Acquires(c) =>
                   IF c = "cpu" THEN HeldKeys(c)' = CpuKeys
                   ELSE Cardinality(HeldKeys(c)') = 1 ]_vars

\* C20 witness: the CPU collector is inside its lock, cpu_usage and
\* cpu_iowait stored and cpu_softirq yet to come, the memory collector
\* having published its one key under a lock of its own, and the network
\* collector being between its two locks.
C20_Witness ==
    /\ pc["cpu"] = "locked" /\ cacheMutex.writer = "cpu"
    /\ {KeyCpuUsage, KeyCpuIOWait} \subseteq DOMAIN metricCache
    /\ KeyCpuSoftIRQ \in HeldKeys("cpu")
    /\ KeyCpuSoftIRQ \notin DOMAIN metricCache
    /\ KeyMemory \in DOMAIN metricCache
    /\ pc["network"] = "ready"
    /\ HeldKeys("network") = BandwidthKeys

\* C21: the read lock is held by exactly the consumers that are copying the
\* map; a consumer that has its copy and is computing the aggregate, encoding
\* or printing holds no lock, so that a collector with something to store
\* finds the lock free unless a writer or a copying consumer holds it.
C21_ReadLockOnlyWhileCopying ==
    /\ cacheMutex.readers = { r \in Consumers : rpc[r] = "copying" }
    /\ \A c \in Collectors :
           (/\ pc[c] = "ready"
            /\ cacheMutex.writer = "none"
            /\ \A r \in Consumers : rpc[r] \in {"idle", "holding"})
               => CanLock(cacheMutex)

\* C21 witness: a consumer is at work on its copy of a store that is not
\* empty, while a collector is inside the write lock, storing.
C21_Witness ==
    /\ \E r \in Consumers : rpc[r] = "holding" /\ snapshot[r] # <<>>
    /\ \E c \in Collectors : pc[c] = "locked" /\ cacheMutex.writer = c

\* The delta of counter f between the baseline and the sample of the call,
\* as an unsigned 64-bit difference.
Delta(f) == (call.in[f] - call.cache[f]) % (2 ^ WordBits)

\* The sum of the eight deltas, as an unsigned 64-bit sum.
TotalDelta ==
    (Delta("user") + Delta("nice") + Delta("system") + Delta("idle")
       + Delta("iowait") + Delta("irq") + Delta("softirq") + Delta("steal"))
      % (2 ^ WordBits)

\* Whether x is part/total*100.
IsShare(x, part) == x.k = "num" /\ x.n * TotalDelta = part * 100 * x.d

\* C22: a successful getCPUMetrics after the cold start sums the eight deltas
\* (taken, as Go takes them, in unsigned arithmetic) into a total; with a
\* total of 0 it returns four zeros, and otherwise Usage = (user + nice +
\* system deltas)/total*100 and IOWait, IRQ and SoftIRQ = their delta/total*100;
\* either way the sample just read is the baseline afterwards.
C22_CPUPercentages ==
    (call.fn = "getCPUMetrics" /\ ~call.cold) =>
        /\ ~call.err
        /\ cpuCache = call.in
        /\ IF TotalDelta = 0 THEN call.out = ZeroMetrics
           ELSE /\ IsShare(call.out.Usage,
                           (Delta("user") + Delta("nice") + Delta("system"))
                             % (2 ^ WordBits))
                /\ IsShare(call.out.IOWait, Delta("iowait"))
                /\ IsShare(call.out.IRQ, Delta("irq"))
                /\ IsShare(call.out.SoftIRQ, Delta("softirq"))

\* C22 witness: after the cold start a call has found user, idle, iowait and
\* softirq time elapsed since the baseline and returned their shares of the
\* total, the baseline now being the sample read.
C22_Witness ==
    /\ call.fn = "getCPUMetrics" /\ ~call.cold
    /\ call.cache = S1 /\ call.in = S2 /\ cpuCache = S2
    /\ call.out.Usage = Num(400, 8)
    /\ call.out.IOWait = Num(100, 8)
    /\ call.out.SoftIRQ = Num(100, 8)
    /\ call.out.IRQ = Zero

PathMemory == <<"/", "m", "e", "m", "o", "r", "y">>

\* Disk paths and interface names a configuration may hold, some of them
\* chosen to come close to the other collectors' metric names.
AnyPaths == Paths \cup {PathMemory, <<"/", "c", "p", "u", "_", "i", "r", "q">>}

AnyInterfaces ==
    {IfLo, <<"e", "t", "h", "0">>,
     <<"c", "o", "n", "n", "e", "c", "t", "i", "o", "n", "s">>}

\* The keys collector c stores under, for disk paths ps and interfaces is.
KeysOf(c, ps, is) ==
    CASE c = "cpu" -> CpuKeys
      [] c = "memory" -> {KeyMemory}
      [] c = "disk" -> { DiskKey(sanitizePath(p).name) : p \in ps }
      [] OTHER -> {KeyConnections} \cup { BandwidthKey(i) : i \in is }

\* The keys collector c stores under in the configuration loaded.
OwnKeys(c) ==
    KeysOf(c,
           { config.Monitoring.DiskPaths[i] :
               i \in { j \in 1..Len(config.Monitoring.DiskPaths) :
                         ~sanitizePath(config.Monitoring.DiskPaths[j]).panic } },
           { config.Monitoring.NetworkInterfaces[i] :
               i \in 1..Len(config.Monitoring.NetworkInterfaces) })

\* The keys whose entry this step stores or changes.
Written ==
    { k \in DOMAIN metricCache' :
        k \notin DOMAIN metricCache \/ metricCache'[k] # metricCache[k] }

\* C23: whatever disk paths and interface names are configured, the keys of
\* the four collectors are pairwise disjoint; every store into metricCache is
\* made by a collector's tick, under one of that collector's keys; and the
\* health handler stores nothing.
C23_OneWriterPerKey ==
    [][ /\ \A c1 \in Collectors, c2 \in Collectors :
               c1 # c2 => KeysOf(c1, AnyPaths, AnyInterfaces)
                            \cap KeysOf(c2, AnyPaths, AnyInterfaces) = {}
        /\ \A c \in Collectors : Ran(c) => Written \subseteq OwnKeys(c)
        /\ (\A c \in Collectors : ~Ran(c)) => metricCache' = metricCache ]_vars

\* C23 witness: every collector has stored under each of its keys, two disk
\* paths being configured, and a health request has been served from them.
C23_Witness ==
    /\ Len(config.Monitoring.DiskPaths) = 2
    /\ \A c \in Collectors : OwnKeys(c) \subseteq DOMAIN metricCache
    /\ Cardinality(DOMAIN metricCache) = 9
    /\ resp.served /\ DOMAIN resp.snapshot = DOMAIN metricCache

\* C24: no step takes a key out of metricCache, and the copy a consumer
\* leaves the read lock with holds every key the store holds at that moment,
\* hence every key published before.
C24_KeysOnlyGrow ==
    [][ /\ DOMAIN metricCache \subseteq DOMAIN metricCache'
        /\ \A r \in Consumers :
               (rpc[r] = "copying" /\ rpc'[r] = "holding")
                   => DOMAIN snapshot[r] = DOMAIN metricCache ]_vars

\* C24 witness: a consumer holds a complete copy of some keys, and the store
\* has gained further keys since.
C24_Witness ==
    \E r \in Consumers :
        /\ rpc[r] = "holding"
        /\ DOMAIN snapshot[r] # {}
        /\ DOMAIN snapshot[r] \subseteq DOMAIN metricCache
        /\ DOMAIN snapshot[r] # DOMAIN metricCache

\* The scheduling of the running process: a response in service goes out,
\* time passes, and each collector, a goroutine of its own that the runtime
\* keeps scheduling whatever requests are served (main.go:111-115), runs the
\* loop body whose sleep has ended for as long as the process lives. A
\* collector's step always moves its wake-up time forward, so that the last
\* conjunct says what strong fairness of its action says.
SpecFair ==
    /\ Init
    /\ [][Next]_vars
    /\ WF_vars(HealthDone)
    /\ WF_vars(Tick)
    /\ \A c \in Collectors : []<>(crashed \/ wake[c] > now)

\* C25 (as claimed): under fair scheduling every collector whose sleep has
\* ended runs its next tick, and from some moment on the store holds
\* cpu_usage, cpu_iowait, cpu_irq, cpu_softirq, memory, network_connections,
\* one disk entry per configured path and one bandwidth entry per configured
\* interface.
C25_EveryKeyEventually ==
    /\ \A c \in Collectors : (wake[c] = now) ~> (wake[c] > now)
    /\ <>[](\A c \in Collectors : OwnKeys(c) \subseteq DOMAIN metricCache)

\* C26: the entries the disk collector stores in one tick, one per configured
\* path, all carry the same maximum: the effective maximum of the second in
\* which the tick began.
C26_OneMaxPerDiskTick ==
    [][ Ran("disk") =>
          \A k1 \in OwnKeys("disk"), k2 \in OwnKeys("disk") :
              (k1 \in DOMAIN metricCache' /\ k2 \in DOMAIN metricCache') =>
                  /\ metricCache'[k1].Max = metricCache'[k2].Max
                  /\ metricCache'[k1].Max
                       = EffectiveMax(config, config.Thresholds.MaxDisk, now) ]_vars

\* C26 witness: during warmup, a disk tick has stored two paths' entries with
\* one scaled maximum, other than the one an earlier tick stored.
C26_Witness ==
    /\ Ramping(now - config.startTime)
    /\ now > 0
    /\ Ticked("disk")
    /\ Cardinality(OwnKeys("disk")) = 2
    /\ OwnKeys("disk") \subseteq DOMAIN metricCache
    /\ \A k \in OwnKeys("disk") :
           /\ metricCache[k].Max # Zero
           /\ metricCache[k].Max # config.Thresholds.MaxDisk
           /\ \E e \in publishes : e[1] = k /\ e[2].Max # metricCache[k].Max

\* The second of collector c's latest tick.
LastTick(c) == wake[c] - Interval(c)

EstablishedIn(states) ==
    Cardinality({ i \in 1..Len(states) : states[i] = StEstablished })

\* C28: getNetworkConnections fails when /proc/net/tcp cannot be read;
\* otherwise it returns, with no error, the number of ESTABLISHED connections
\* of /proc/net/tcp plus that of /proc/net/tcp6, or the IPv4 number alone when
\* /proc/net/tcp6 cannot be read.
C28_ConnectionCount ==
    call.fn = "getNetworkConnections" =>
        IF ~call.in.tcp.ok THEN call.out.err
        ELSE /\ ~call.out.err
             /\ call.out.val
                  = F(EstablishedIn(call.in.tcp.states)
                        + IF call.in.tcp6.ok THEN EstablishedIn(call.in.tcp6.states)
                          ELSE 0)

\* C28 witness: two ESTABLISHED connections over IPv4, and a listening socket
\* and one ESTABLISHED connection over IPv6, are counted as three.
C28_Witness ==
    /\ call.fn = "getNetworkConnections"
    /\ call.in.tcp = [ok |-> TRUE, states |-> <<StEstablished, StEstablished>>]
    /\ call.in.tcp6 = [ok |-> TRUE, states |-> <<StListen, StEstablished>>]
    /\ call.out = [err |-> FALSE, val |-> F(3)]

\* C29: for every elapsed time from 0 on and every duration, getWarmupFactor
\* returns a number from 0 to 1: 1 once elapsed >= duration, which covers
\* every duration of zero or less (nothing is divided then), and
\* elapsed/duration before.
C29_FactorInUnitInterval ==
    call.fn = "getWarmupFactor" =>
        /\ call.out.k = "num"
        /\ FGe(call.out, Zero)
        /\ FGe(One, call.out)
        /\ IF call.elapsed >= call.duration THEN call.out = One
           ELSE call.out.n * call.duration = call.elapsed * call.out.d

\* C29 witness: the factor of a duration of zero at the very start is 1, not
\* 0/0.
C29_Witness ==
    /\ call.fn = "getWarmupFactor"
    /\ call.duration = 0
    /\ call.elapsed = 0
    /\ call.out = One

\* The readings one call of getCPUMetrics can return to the collector: one
\* sample of /proc/stat against one baseline, or the cold start.
CpuReadings ==
    { CPUReading(getCPUMetrics(Stat(s), initialized, cache)) :
        s \in {S1, S2}, initialized \in BOOLEAN, cache \in {ZeroSnapshot, S1, S2} }

\* The four CPU entries of a copy, as one reading.
ReadingIn(metrics) ==
    [Usage |-> metrics[KeyCpuUsage].Current, IOWait |-> metrics[KeyCpuIOWait].Current,
     IRQ |-> metrics[KeyCpuIRQ].Current, SoftIRQ |-> metrics[KeyCpuSoftIRQ].Current]

\* C30: the copy a consumer leaves the read lock with holds none of
\* cpu_usage, cpu_iowait, cpu_irq and cpu_softirq or all four, and then the
\* four entries of one tick: the readings of one sample, against maxima
\* scaled by the factor of one second, each with the status of the two.
C30_CPUGroupIsAtomic ==
    \A r \in Consumers :
        rpc[r] = "holding" =>
            \/ CpuKeys \cap DOMAIN snapshot[r] = {}
            \/ /\ CpuKeys \subseteq DOMAIN snapshot[r]
               /\ ReadingIn(snapshot[r]) \in CpuReadings
               /\ \E t \in 0..now :
                      \A th \in Thresholded :
                          th.who = "cpu" => IsScaled(snapshot[r][th.key].Max, th.max, t)
               /\ \A k \in CpuKeys :
                      snapshot[r][k].Status
                        = Status(snapshot[r][k].Current, snapshot[r][k].Max)

\* C30 witness: a consumer holds the four entries of the CPU collector's
\* second tick, a reading other than zero against maxima half-way up the
\* ramp.
C30_Witness ==
    \E r \in Consumers :
        /\ rpc[r] = "holding"
        /\ CpuKeys \subseteq DOMAIN snapshot[r]
        /\ snapshot[r][KeyCpuUsage].Current # Zero
        /\ \A k \in CpuKeys : snapshot[r][k].Max # Zero


\* --------------------------------- the three locks, one lock step at a time
\* A kernel none of whose files can be read: every reader returns its error.
KernelUnreadable ==
    Kernel(StatUnreadable, Unreadable, StatfsError, Unreadable, Unreadable, Unreadable)

\* The kernels under which no collector panics.
QuietKernels == {KernelIdle, KernelUnreadable}

\* The tick of the CPU collector as collectCPUMetric evaluates it.
CPUPlanned == CPUTick(kernel.stat, config, now, cpuInitialized, cpuCache)

\* The interface whose bandwidth the network collector turns to next.
NextInterface ==
    config.Monitoring.NetworkInterfaces[
        Len(config.Monitoring.NetworkInterfaces) - Len(pending["network"]) + 1]

\* What getNetworkBandwidth returns for that interface.
BandwidthCalled == getNetworkBandwidth(kernel.dev, NextInterface, bandwidthCache, now)

\* getCPUMetrics returns an error from os.ReadFile or fmt.Sscanf: it has not
\* come to cpuCacheMutex.Lock(), and collectCPUMetric goes on to its stores.
GetCPUMetricsFailed ==
    /\ ~crashed
    /\ pc["cpu"] = "sleep"
    /\ wake["cpu"] = now
    /\ getCPUMetrics(kernel.stat, cpuInitialized, cpuCache).err
    /\ pending' = [pending EXCEPT !["cpu"] = FieldSections(CPUPlanned.sections)]
    /\ warmupFactor' = [warmupFactor EXCEPT !["cpu"] = WarmupFactor(config, now)]
    /\ pc' = [pc EXCEPT !["cpu"] = "ready"]
    /\ UNCHANGED <<cpuCacheMutex, bandwidthCacheMutex, call, config, kernel, now,
                   crashed, cpuInitialized, cpuCache, bandwidthCache, metricCache,
                   wake, resp, cacheMutex, rpc, snapshot, cursor, lastPublish,
                   publishes, reads>>

\* getCPUMetrics has read and scanned /proc/stat: cpuCacheMutex.Lock().
GetCPUMetricsLock ==
    /\ ~crashed
    /\ pc["cpu"] = "sleep"
    /\ wake["cpu"] = now
    /\ ~getCPUMetrics(kernel.stat, cpuInitialized, cpuCache).err
    /\ cpuCacheMutex = "none"
    /\ cpuCacheMutex' = "cpu"
    /\ pc' = [pc EXCEPT !["cpu"] = "inCall"]
    /\ UNCHANGED <<bandwidthCacheMutex, call, config, kernel, now, crashed,
                   cpuInitialized, cpuCache, bandwidthCache, metricCache, wake,
                   warmupFactor, resp, cacheMutex, pending, rpc, snapshot, cursor,
                   lastPublish, publishes, reads>>

\* A return that leaves the lock of the caller's own task held.
ReturnHolding(mutex) == mutex

\* defer ...Unlock(): the return of the function releases the lock.
DeferredUnlock(mutex) == "none"

\* getCPUMetrics returns, on its cold start or with its shares: the baseline
\* is the sample just read, and collectCPUMetric goes on to its stores.
GetCPUMetricsReturn ==
    /\ ~crashed
    /\ pc["cpu"] = "inCall"
    /\ cpuCacheMutex' = DeferredUnlock(cpuCacheMutex)
    /\ cpuInitialized' = CPUPlanned.cpuInitialized
    /\ cpuCache' = CPUPlanned.cpuCache
    /\ pending' = [pending EXCEPT !["cpu"] = FieldSections(CPUPlanned.sections)]
    /\ warmupFactor' = [warmupFactor EXCEPT !["cpu"] = WarmupFactor(config, now)]
    /\ pc' = [pc EXCEPT !["cpu"] = "ready"]
    /\ UNCHANGED <<bandwidthCacheMutex, call, config, kernel, now, crashed,
                   bandwidthCache, metricCache, wake, resp, cacheMutex, rpc,
                   snapshot, cursor, lastPublish, publishes, reads>>

\* collectNetworkMetric counts the connections and takes cacheMutex for
\* them; the calls of getNetworkBandwidth come after, one per interface.
StartNetwork ==
    /\ Woken("network")
    /\ Begin("network", NetworkTick(kernel.tcp, kernel.tcp6, DevAll, config, now,
                                    bandwidthCache).sections)
    /\ UNCHANGED <<crashed, cpuInitialized, cpuCache, bandwidthCache>>

\* cacheMutex.Unlock() of the network collector: the next interface's
\* bandwidth is to be read, or time.Sleep(...) after the last one.
UnlockNetwork ==
    /\ ~crashed
    /\ pc["network"] = "locked"
    /\ Head(pending["network"]) = <<>>
    /\ cacheMutex' = [cacheMutex EXCEPT !.writer = "none"]
    /\ pending' = [pending EXCEPT !["network"] = Tail(pending["network"])]
    /\ IF Tail(pending["network"]) = <<>>
       THEN /\ pc' = [pc EXCEPT !["network"] = "sleep"]
            /\ wake' = [wake EXCEPT !["network"] = now + Interval("network")]
       ELSE /\ pc' = [pc EXCEPT !["network"] = "between"]
            /\ UNCHANGED wake
    /\ UNCHANGED <<cpuCacheMutex, bandwidthCacheMutex, call,
                   config, kernel, now, crashed, cpuInitialized, cpuCache,
                   bandwidthCache, metricCache, warmupFactor, resp, rpc,
                   snapshot, cursor, lastPublish, publishes, reads>>

\* getNetworkBandwidth returns an error from os.ReadFile or fmt.Sscanf: it
\* has not come to bandwidthCacheMutex.Lock().
GetNetworkBandwidthFailed ==
    /\ ~crashed
    /\ pc["network"] = "between"
    /\ BandwidthCalled.err
    /\ pc' = [pc EXCEPT !["network"] = "ready"]
    /\ UNCHANGED <<cpuCacheMutex, bandwidthCacheMutex, call, config, kernel, now,
                   crashed, cpuInitialized, cpuCache, bandwidthCache, metricCache,
                   wake, warmupFactor, resp, cacheMutex, pending, rpc, snapshot,
                   cursor, lastPublish, publishes, reads>>

\* getNetworkBandwidth has its totals: bandwidthCacheMutex.Lock().
GetNetworkBandwidthLock ==
    /\ ~crashed
    /\ pc["network"] = "between"
    /\ ~BandwidthCalled.err
    /\ bandwidthCacheMutex = "none"
    /\ bandwidthCacheMutex' = "network"
    /\ pc' = [pc EXCEPT !["network"] = "inCall"]
    /\ UNCHANGED <<cpuCacheMutex, call, config, kernel, now, crashed,
                   cpuInitialized, cpuCache, bandwidthCache, metricCache, wake,
                   warmupFactor, resp, cacheMutex, pending, rpc, snapshot, cursor,
                   lastPublish, publishes, reads>>

\* getNetworkBandwidth returns, on its first observation, with a rate, or
\* with 0 for a time that did not advance: the baseline is the sample read.
GetNetworkBandwidthReturn ==
    /\ ~crashed
    /\ pc["network"] = "inCall"
    /\ bandwidthCacheMutex' = DeferredUnlock(bandwidthCacheMutex)
    /\ bandwidthCache' = BandwidthCalled.bandwidthCache
    /\ pc' = [pc EXCEPT !["network"] = "ready"]
    /\ UNCHANGED <<cpuCacheMutex, call, config, kernel, now, crashed,
                   cpuInitialized, cpuCache, metricCache, wake, warmupFactor, resp,
                   cacheMutex, pending, rpc, snapshot, cursor, lastPublish,
                   publishes, reads>>

RECURSIVE StoreFields(_, _)
StoreFields(cache, writes) ==
    IF writes = <<>> THEN cache
    ELSE StoreFields(StoreField(cache, Head(writes).key, Head(writes).field,
                                Head(writes).value), Tail(writes))

RECURSIVE CopyEntries(_, _)
CopyEntries(metrics, writes) ==
    IF writes = <<>> THEN metrics
    ELSE CopyEntries(IF Head(writes).field = "Current"
                     THEN CopyEntry(metrics, Head(writes).key, Head(writes).entry)
                     ELSE metrics, Tail(writes))

\* The assignments metricCache[name] = MetricStatus{...} between one
\* cacheMutex.Lock() and its Unlock(): no other task sees one without the
\* others, and they are taken as one step.
StoreSection(c) ==
    /\ ~crashed
    /\ pc[c] = "locked"
    /\ Head(pending[c]) # <<>>
    /\ \E writes \in {Head(pending[c])} :
           /\ metricCache' = StoreFields(metricCache, writes)
           /\ lastPublish' = CopyEntries(lastPublish, writes)
           /\ publishes' = publishes \cup
                  {<<writes[i].key, writes[i].entry>> :
                      i \in {j \in 1..Len(writes) : writes[j].field = "Current"}}
    /\ pending' = [pending EXCEPT ![c] = <<<<>>>> \o Tail(pending[c])]
    /\ UNCHANGED <<cpuCacheMutex, bandwidthCacheMutex, call,
                   config, kernel, now, crashed, cpuInitialized, cpuCache,
                   bandwidthCache, wake, warmupFactor, resp, cacheMutex, pc, rpc,
                   snapshot, cursor, reads>>

RECURSIVE CopyLoop(_, _)
CopyLoop(metrics, keys) ==
    IF keys = <<>> THEN metrics
    ELSE CopyLoop(CopyEntry(metrics, Head(keys), metricCache[Head(keys)]), Tail(keys))

\* cacheMutex.RLock() and the range loop for k, v := range metricCache
\* { metrics[k] = v } up to the RUnlock() after it: the lock keeps every
\* writer out, and the copies are taken as one step.
RLockAndCopy(r) ==
    /\ ~crashed
    /\ rpc[r] = "idle"
    /\ reads < MaxReads
    /\ CanRLock(cacheMutex)
    /\ cacheMutex' = [cacheMutex EXCEPT !.readers = @ \cup {r}]
    /\ rpc' = [rpc EXCEPT ![r] = "copying"]
    /\ snapshot' = [snapshot EXCEPT ![r] = CopyLoop(<<>>, Present(KeyOrder, metricCache))]
    /\ reads' = reads + 1
    /\ UNCHANGED <<cpuCacheMutex, bandwidthCacheMutex, call,
                   config, kernel, now, crashed, cpuInitialized, cpuCache,
                   bandwidthCache, metricCache, wake, warmupFactor, resp, pc,
                   pending, cursor, lastPublish, publishes>>

\* A second passes once every collector is asleep; the files of /proc may
\* have become unreadable, or readable again.
TickMutexes ==
    /\ ~crashed
    /\ now < MaxTimeLocks
    /\ cacheMutex = Unlocked
    /\ \A c \in Collectors : pc[c] = "sleep" /\ wake[c] > now
    /\ now' = now + 1
    /\ kernel' \in QuietKernels
    /\ UNCHANGED <<call, config, crashed, cpuInitialized, cpuCache, bandwidthCache,
                   metricCache, wake, warmupFactor, resp>>
    /\ UNCHANGED lockVars

InitMutexes ==
    /\ Init
    /\ config = RampConfig
    /\ kernel \in QuietKernels

NextMutexes ==
    \/ GetCPUMetricsFailed
    \/ GetCPUMetricsLock
    \/ GetCPUMetricsReturn
    \/ ReadMemory
    \/ ReadDisk
    \/ StartNetwork
    \/ GetNetworkBandwidthFailed
    \/ GetNetworkBandwidthLock
    \/ GetNetworkBandwidthReturn
    \/ \E c \in Collectors : Lock(c)
    \/ \E c \in Collectors : StoreSection(c)
    \/ \E c \in Collectors \ {"network"} : Unlock(c)
    \/ UnlockNetwork
    \/ \E r \in Consumers : RLockAndCopy(r)
    \/ \E r \in Consumers : RUnlock(r)
    \/ \E r \in Consumers : Consume(r)
    \/ TickMutexes

SpecMutexes == InitMutexes /\ [][NextMutexes]_vars

Tasks == Collectors \cup Consumers

\* The locks task t holds.
Held(t) ==
    {m \in {"cacheMutex"} : cacheMutex.writer = t \/ t \in cacheMutex.readers}
        \cup {m \in {"cpuCacheMutex"} : cpuCacheMutex = t}
        \cup {m \in {"bandwidthCacheMutex"} : bandwidthCacheMutex = t}

\* The locks task t may be waiting for: the one its next step takes.
Waits(t) ==
    IF t \in Consumers
    THEN {m \in {"cacheMutex"} : rpc[t] = "idle"}
    ELSE IF pc[t] = "ready" THEN {"cacheMutex"}
    ELSE IF pc[t] = "between"
    THEN IF BandwidthCalled.err THEN {} ELSE {"bandwidthCacheMutex"}
    ELSE IF pc[t] = "sleep" /\ wake[t] = now
    THEN IF t = "cpu"
         THEN {m \in {"cpuCacheMutex"} :
                 ~getCPUMetrics(kernel.stat, cpuInitialized, cpuCache).err}
         ELSE {"cacheMutex"}
    ELSE {}

\* Task t is inside a critical section, each step of which it can take
\* whatever the other tasks do.
InSection(t) ==
    IF t \in Consumers THEN rpc[t] = "copying" ELSE pc[t] \in {"locked", "inCall"}

\* C31: no task ever holds more than one of cacheMutex, cpuCacheMutex and
\* bandwidthCacheMutex; a task holds a lock only inside the critical section
\* it took it for, so that every path out of the section, the error and
\* early returns included, has released it; and a lock a task waits for is
\* held only by tasks that are inside their sections and wait for nothing,
\* so that no interleaving of collectors and consumers deadlocks.
C31_OneLockAtATime ==
    \A t \in Tasks :
        /\ Cardinality(Held(t)) <= 1
        /\ Held(t) # {} => InSection(t)
        /\ InSection(t) => Waits(t) = {}
        /\ \A m \in Waits(t) : \A h \in Tasks : m \in Held(h) => InSection(h)

\* At a later tick the CPU collector, back from getCPUMetrics, holds
\* cacheMutex for its shares while the network collector is inside
\* getNetworkBandwidth with bandwidthCacheMutex.
C31_Witness ==
    /\ now > 0
    /\ cpuCacheMutex = "none"
    /\ cpuInitialized
    /\ pc["cpu"] = "locked"
    /\ bandwidthCacheMutex = "network"
    /\ kernel \in HealthyKernels


\* C32: the max values a collector publishes under one thresholded key never
\* go down from one publish to the next, never exceed the configured
\* maximum, and are the configured maximum in every publish made once the
\* elapsed time has reached the warmup duration.
C32_MaxRisesToConfigured ==
    [][ \A th \in Thresholded :
          (Ran(th.who) /\ ~crashed' /\ th.key \in DOMAIN metricCache') =>
              /\ FGe(th.max, metricCache'[th.key].Max)
              /\ th.key \in DOMAIN metricCache =>
                     FGe(metricCache'[th.key].Max, metricCache[th.key].Max)
              /\ now - config.startTime >= config.Warmup.Duration =>
                     /\ FGe(metricCache'[th.key].Max, th.max)
                     /\ FGe(th.max, metricCache'[th.key].Max) ]_vars

\* The memory key was published below its configured maximum during the
\* ramp and carries the configured maximum after it.
C32_Witness ==
    /\ config.Warmup.Enabled
    /\ config.Warmup.Duration > 0
    /\ now - config.startTime >= config.Warmup.Duration
    /\ KeyMemory \in DOMAIN metricCache
    /\ metricCache[KeyMemory].Max = config.Thresholds.MaxMemory
    /\ \E p \in publishes :
           /\ p[1] = KeyMemory
           /\ FGt(p[2].Max, Zero)
           /\ FGt(config.Thresholds.MaxMemory, p[2].Max)


\* ------------------------------ the two baselines, one call after another
IfEth0 == <<"e", "t", "h", "0">>

Interfaces == {IfLo, IfEth0}

\* /proc/stat as a call finds it: unreadable, unparsable, or a sample.
StatInputs == {StatUnreadable, StatUnparsable} \cup { Stat(s) : s \in CpuSamples }

\* /proc/net/dev as a call finds it, with the interfaces it has a line for:
\* unreadable, the header alone, names right-aligned as the kernel prints
\* short ones, and a name flush left.
DevFile(dev, listed) == [dev |-> dev, listed |-> listed]

DevFiles ==
    { DevFile(Unreadable, {}),
      DevFile(File(DevHeader), {}),
      DevFile(File(DevHeader \o DevLine(Blanks, IfLo, 5, 3)), {IfLo}),
      DevFile(File(DevHeader \o DevLine(Blanks, IfLo, 5, 3)
                             \o DevLine(<<" ", " ">>, IfEth0, 2, 1)), {IfLo, IfEth0}),
      DevFile(File(DevHeader \o DevLine(<<>>, IfEth0, 2, 1)), {IfEth0}) }

\* getCPUMetrics() on any /proc/stat.
CallGetCPUMetricsOn ==
    \E stat \in StatInputs :
        LET r == getCPUMetrics(stat, cpuInitialized, cpuCache)
        IN  /\ call' = [fn |-> "getCPUMetrics", in |-> stat,
                        cold |-> ~cpuInitialized, cache |-> cpuCache,
                        err |-> r.err, out |-> r.metrics]
            /\ cpuInitialized' = r.cpuInitialized
            /\ cpuCache' = r.cpuCache
            /\ UNCHANGED <<config, kernel, now, crashed, bandwidthCache, metricCache,
                           wake, warmupFactor, resp, lockVars>>

\* getNetworkBandwidth(iface) for either interface, in the instant of the
\* call before or later.
CallGetNetworkBandwidthOf ==
    \E src \in DevFiles, iface \in Interfaces, currentTime \in {now, now + 1} :
        /\ currentTime <= MaxCallTime
        /\ CalledGetNetworkBandwidth(src, iface, currentTime,
               getNetworkBandwidth(src.dev, iface, bandwidthCache, currentTime))
        /\ UNCHANGED <<config, kernel, crashed, cpuInitialized, cpuCache,
                       metricCache, wake, warmupFactor, resp, lockVars>>

NextBaselines ==
    \/ CallGetCPUMetricsOn
    \/ CallGetNetworkBandwidthOf

SpecBaselines == InitCalls /\ [][NextBaselines]_vars

CalledCPU(c) == c # NoCall /\ c.fn = "getCPUMetrics"

CalledBandwidth(c) == c # NoCall /\ c.fn = "getNetworkBandwidth"

\* C33: a call of getCPUMetrics that returns an error leaves cpuInitialized
\* and the CPU baseline as they were, and a call of getNetworkBandwidth that
\* returns an error leaves the baselines as they were; the success that
\* follows a failure starts from what the failed call found: cold if that
\* was cold, and otherwise against the same last successful sample.
C33_FailureKeepsBaseline ==
    [][ /\ (CalledCPU(call') /\ call'.err) =>
               /\ cpuInitialized' = cpuInitialized
               /\ cpuCache' = cpuCache
        /\ (CalledBandwidth(call') /\ call'.err) => bandwidthCache' = bandwidthCache
        /\ (CalledCPU(call) /\ call.err /\ CalledCPU(call') /\ ~call'.err) =>
               /\ call'.cold = call.cold
               /\ call'.cache = call.cache
               /\ call.cold => call'.out = ZeroMetrics
               /\ cpuCache' = call'.in.sample
        /\ (/\ CalledBandwidth(call) /\ call.err
            /\ CalledBandwidth(call') /\ ~call'.err
            /\ call'.iface = call.iface) =>
               /\ call'.exists = call.exists
               /\ call'.snapshot = call.snapshot
               /\ ~call.exists => call'.out = Zero ]_vars

\* getCPUMetrics has failed after a success, and the sample of the success
\* is still the baseline; an interface has its baseline too.
C33_Witness ==
    /\ CalledCPU(call)
    /\ call.err
    /\ cpuInitialized
    /\ cpuCache = S2
    /\ HasBaseline(bandwidthCache, IfLo)

\* The map with the entries of the interfaces other than iface.
Others(cache, iface) == [x \in DOMAIN cache \ {iface} |-> cache[x]]

\* The map with the entry of iface alone.
Own(cache, iface) == [x \in DOMAIN cache \cap {iface} |-> cache[x]]

\* C34: a call of getNetworkBandwidth for one interface leaves the baselines
\* of the other interfaces and the CPU baseline as they were, and what it
\* returns, its cold start included, is what it returns with the baselines
\* of the other interfaces absent.
C34_OnlyOwnBaseline ==
    [][ CalledBandwidth(call') =>
          /\ cpuInitialized' = cpuInitialized
          /\ cpuCache' = cpuCache
          /\ Others(bandwidthCache', call'.iface) = Others(bandwidthCache, call'.iface)
          /\ LET alone == getNetworkBandwidth(call'.in.dev, call'.iface,
                                              Own(bandwidthCache, call'.iface),
                                              call'.currentTime)
             IN  /\ call'.err = alone.err
                 /\ call'.out = alone.val
                 /\ Own(bandwidthCache', call'.iface) = alone.bandwidthCache ]_vars

\* A call for eth0 has stored eth0's baseline beside an older one of lo,
\* with the CPU baseline set.
C34_Witness ==
    /\ CalledBandwidth(call)
    /\ call.iface = IfEth0
    /\ ~call.err
    /\ cpuInitialized
    /\ HasBaseline(bandwidthCache, IfLo)
    /\ HasBaseline(bandwidthCache, IfEth0)
    /\ bandwidthCache[IfLo].timestamp < bandwidthCache[IfEth0].timestamp

\* C35: when /proc/net/dev is read and has no line for the interface,
\* getNetworkBandwidth returns no error and takes the total for 0 bytes: the
\* baseline it leaves is 0 bytes at the time of the call, and the first
\* observation returns 0.
C35_MissingInterfaceIsZero ==
    [][ (/\ CalledBandwidth(call')
         /\ call'.in.dev.ok
         /\ call'.iface \notin call'.in.listed) =>
            /\ ~call'.err
            /\ HasBaseline(bandwidthCache', call'.iface)
            /\ bandwidthCache'[call'.iface]
                 = [totalBytes |-> 0, timestamp |-> call'.currentTime]
            /\ ~HasBaseline(bandwidthCache, call'.iface) => call'.out = Zero ]_vars

\* A later call for an interface without a line has replaced its baseline.
C35_Witness ==
    /\ CalledBandwidth(call)
    /\ call.in.dev.ok
    /\ call.iface \notin call.in.listed
    /\ call.exists
    /\ ~call.err
    /\ bandwidthCache[call.iface] = [totalBytes |-> 0, timestamp |-> call.currentTime]
    /\ call.snapshot.timestamp < call.currentTime

====
